---- MODULE Spec2Model ----
(***************************************************************************)
(* A model of TmVal's growth-rate algebra (tmval/rate.py,                  *)
(* tmval/conversions.py) and of its cash-flow container (tmval/value.py).  *)
(*                                                                         *)
(* Floating-point magnitudes are modelled as fixed-point integers: the     *)
(* integer x stands for the real number x / Scale.  Python's None is the   *)
(* empty tuple and a supplied optional argument v is the 1-tuple <<v>>.    *)
(***************************************************************************)
EXTENDS Integers, Sequences, FiniteSets, TLC

----------------------------------------------------------------------------
(* Bounds of the model.                                                    *)

\* one unit of the fixed-point representation: x stands for x / Scale (four
\* decimal places)
Scale == 100 * 100
\* largest compounding frequency (times per year) drawn as an input
MaxFreq == 2
\* largest effective interval (years) drawn as an input
MaxInterval == 2
\* fixed-point units allowed between two magnitudes that are "equal within
\* floating tolerance"
Tol == 6

\* most list objects the caller creates
MaxLists == 2
\* most Payments objects constructed
MaxPayments == 2
\* longest list an append may leave
MaxLen == 3
\* latest whole time of a payment whose yield is solved for
MaxTerm == 3
\* eight-place units allowed between two values that are "equal within
\* floating tolerance"
TolFine == 100

\* the largest horizon over which a perpetuity's payments are iterated
MaxHorizon == 3

Freqs == 1..MaxFreq
Intervals == 1..MaxInterval
\* the magnitudes drawn as inputs: 0, 4% and 10%
Mags == {0, (4 * Scale) \div 100, (10 * Scale) \div 100}

----------------------------------------------------------------------------
(* Python's optional values.                                               *)

None == <<>>
Some(v) == <<v>>
Get(o) == o[1]
\* an attribute that __init__ never assigned (reading it is an AttributeError)
NoAttr == <<0, 0>>
Opt(S) == {None} \cup {Some(v) : v \in S}

----------------------------------------------------------------------------
(* Float arithmetic in fixed point.                                        *)

Abs(x) == IF x < 0 THEN -x ELSE x

\* a * b
Mul(a, b) == (a * b + Scale \div 2) \div Scale

\* a / b, b # 0
Div(a, b) ==
    IF b > 0 THEN (a * Scale + b \div 2) \div b
    ELSE ((-a) * Scale + (-b) \div 2) \div (-b)

\* x ** n for a whole number n >= 0
RECURSIVE Pow(_, _)
Pow(x, n) == IF n = 0 THEN Scale ELSE Mul(Pow(x, n - 1), x)

\* bisection for the n-th root of x between lo and hi: the largest r in
\* lo..hi with r ** n <= x
RECURSIVE RootIn(_, _, _, _)
RootIn(x, n, lo, hi) ==
    IF lo >= hi THEN lo
    ELSE LET mid == (lo + hi + 1) \div 2
         IN  IF Pow(mid, n) <= x THEN RootIn(x, n, mid, hi)
             ELSE RootIn(x, n, lo, mid - 1)

\* x ** (1 / n) for x > 0 and a whole number n >= 1; the root of x lies
\* between x and 1
PowInv(x, n) ==
    IF n = 1 THEN x
    ELSE LET lo == IF x < Scale THEN x ELSE Scale
             hi == IF x < Scale THEN Scale ELSE x
             \* the nearer of r and r + 1
             nearer(r) ==
                 IF r < hi /\ Pow(r + 1, n) - x < x - Pow(r, n) THEN r + 1 ELSE r
         IN  nearer(RootIn(x, n, lo, hi))

\* np.log(x) for x > 0 near 1: 2 * atanh((x - 1) / (x + 1)) by its series
Ln(x) ==
    LET \* the terms are summed before the one rounding
        sum(z, z3, z5, z7) == (2 * (105 * z + 35 * z3 + 21 * z5 + 15 * z7) + 52) \div 105
        from5(z, z2, z3, z5) == sum(z, z3, z5, Mul(z5, z2))
        from3(z, z2, z3) == from5(z, z2, z3, Mul(z3, z2))
        from2(z, z2) == from3(z, z2, Mul(z2, z))
        from1(z) == from2(z, Mul(z, z))
    IN  from1(Div(x - Scale, x + Scale))

\* np.exp(x) for |x| < 1 by its series
Exp(x) ==
    LET sum(x2, x3, x4, x5) ==
            Scale + (120 * x + 60 * x2 + 20 * x3 + 5 * x4 + x5 + 60) \div 120
        from4(x2, x3, x4) == sum(x2, x3, x4, Mul(x4, x))
        from3(x2, x3) == from4(x2, x3, Mul(x3, x))
        from2(x2) == from3(x2, Mul(x2, x))
    IN  from2(Mul(x, x))

----------------------------------------------------------------------------
(* Float arithmetic to eight decimal places, for the valuation of payments *)
(* (Annuity.pv rounds a rate to five places to choose its formula): the    *)
(* integer x stands for x / Fine, and magnitudes stay below 4.                *)

Fine == Scale * Scale

\* a * b for a, b >= 0, by halves of four digits
FMulPos(a, b) ==
    LET parts(a1, a0, b1, b0) ==
            a1 * b1 + (a1 * b0 + a0 * b1 + (a0 * b0 + Fine \div 2) \div Scale) \div Scale
    IN  parts(a \div Scale, a % Scale, b \div Scale, b % Scale)

\* a * b
FMul(a, b) ==
    IF (a < 0) = (b < 0) THEN FMulPos(Abs(a), Abs(b)) ELSE -FMulPos(Abs(a), Abs(b))

\* the quotient q of a / b so far and the remainder r, carried on by k
\* decimal digits and then rounded, for 0 <= r < b
RECURSIVE FDigits(_, _, _, _)
FDigits(q, r, b, k) ==
    IF k = 0 THEN (IF 2 * r >= b THEN q + 1 ELSE q)
    ELSE FDigits(10 * q + (10 * r) \div b, (10 * r) % b, b, k - 1)

\* a / b for a >= 0 and b > 0; a divisor above 2 is halved with its dividend
FDivPos(a, b) ==
    IF b >= 2 * Fine THEN FDigits((a \div 2) \div (b \div 2), (a \div 2) % (b \div 2), b \div 2, 8)
    ELSE FDigits(a \div b, a % b, b, 8)

\* a / b, b # 0
FDiv(a, b) ==
    IF (a < 0) = (b < 0) THEN FDivPos(Abs(a), Abs(b)) ELSE -FDivPos(Abs(a), Abs(b))

\* x ** n for a whole number n >= 0
RECURSIVE FPow(_, _)
FPow(x, n) == IF n = 0 THEN Fine ELSE FMul(FPow(x, n - 1), x)

\* np.log(x) for x > 0 near 1: 2 * atanh((x - 1) / (x + 1)) by its series
FLn(x) ==
    LET sum(z, z3, z5, z7, z9) ==
            2 * (z + z3 \div 3 + z5 \div 5 + z7 \div 7 + z9 \div 9)
        from7(z, z2, z3, z5, z7) == sum(z, z3, z5, z7, FMul(z7, z2))
        from5(z, z2, z3, z5) == from7(z, z2, z3, z5, FMul(z5, z2))
        from3(z, z2, z3) == from5(z, z2, z3, FMul(z3, z2))
        from2(z, z2) == from3(z, z2, FMul(z2, z))
        from1(z) == from2(z, FMul(z, z))
    IN  from1(FDiv(x - Fine, x + Fine))

\* np.exp(x) for |x| < 1/2 by its series
FExp(x) ==
    LET sum(x2, x3, x4, x5, x6) ==
            Fine + x + x2 \div 2 + x3 \div 6 + x4 \div 24 + x5 \div 120 + x6 \div 720
        from5(x2, x3, x4, x5) == sum(x2, x3, x4, x5, FMul(x5, x))
        from4(x2, x3, x4) == from5(x2, x3, x4, FMul(x4, x))
        from3(x2, x3) == from4(x2, x3, FMul(x3, x))
        from2(x2) == from3(x2, FMul(x2, x))
    IN  from2(FMul(x, x))

\* x ** t for x > 0 and a float t >= 0: the whole part of t by products, the
\* rest by exp and log
FPowT(x, t) ==
    IF t % Fine = 0 THEN FPow(x, t \div Fine)
    ELSE FMul(FPow(x, t \div Fine), FExp(FMul(t % Fine, FLn(x))))

\* floor(x) and ceil(x) as whole numbers
floor(x) == x \div Fine
ceil(x) == -((-x) \div Fine)

\* round(x, 5)
round5(x) == ((x + 500) \div 1000) * 1000

----------------------------------------------------------------------------
(* tmval/constants.py                                                      *)

FORMAL_PATTERNS ==
    [p \in {"interest", "i", "APY", "apy", "Effective Interest"} |-> "Effective Interest"] @@
    [p \in {"d", "Effective Discount"} |-> "Effective Discount"] @@
    [p \in {"nomint", "nominal interest", "APR", "apr", "Nominal Interest"} |-> "Nominal Interest"] @@
    [p \in {"nomdisc", "nominal discount", "Nominal Discount"} |-> "Nominal Discount"] @@
    [p \in {"delta", "force", "Force of Interest"} |-> "Force of Interest"] @@
    [p \in {"s", "simple interest", "simp", "Simple Interest"} |-> "Simple Interest"] @@
    [p \in {"Simple Discount", "sd", "simple discount", "simpdisc"} |-> "Simple Discount"]

COMPOUNDS == {"Effective Interest", "Effective Discount", "Nominal Interest",
              "Nominal Discount", "Force of Interest"}

SIMPLES == {"Simple Interest", "Simple Discount"}

NOMINALS == {"Nominal Interest", "Nominal Discount"}

\* EFFECTIVES without the simple patterns
EFFECTIVES_compound_only == {"Effective Interest", "Effective Discount"}

EFFECTIVES == {"Effective Interest", "Effective Discount", "Simple Interest",
               "Simple Discount"}

----------------------------------------------------------------------------
(* tmval/conversions.py.  A conversion returns a RateTemplate; a call that *)
(* raises is a template whose err names the exception.                     *)

RateTemplate(rate, formal_pattern, freq, interval) ==
    [err |-> "", rate |-> rate, formal_pattern |-> formal_pattern,
     freq |-> freq, interval |-> interval]

\* the outcome of a call that raised exception e
Raise(e) ==
    [err |-> e, rate |-> 0, formal_pattern |-> "", freq |-> None, interval |-> None]

discount_from_interest(i) == Div(i, Scale + i)

interest_from_discount(d) == Div(d, Scale - d)

\* the effective rate from a nominal one without the division by m
effective_from_nominal_int_undivided(im, m) == Pow(Scale + im, m) - Scale

effective_from_nominal_int(im, m) == Pow(Scale + Div(im, m * Scale), m) - Scale

effective_from_nominal_disc(dm, m) == Scale - Pow(Scale - Div(dm, m * Scale), m)

eff_int_from_eff_int(i, old_t, new_t) ==
    LET i1 == IF old_t # None THEN PowInv(Scale + i, Get(old_t)) - Scale ELSE i
        i2(x) == IF new_t # None THEN Pow(Scale + x, Get(new_t)) - Scale ELSE x
    IN  RateTemplate(i2(i1), "Effective Interest", None, new_t)

nom_int_from_eff_int(i, new_m, old_t) ==
    LET i1 == IF old_t # None THEN eff_int_from_eff_int(i, old_t, Some(1)).rate ELSE i
        im == new_m * (PowInv(Scale + i1, new_m) - Scale)
    IN  RateTemplate(im, "Nominal Interest", Some(new_m), None)

eff_disc_from_eff_disc(d, old_t, new_t) ==
    LET d1    == Scale - PowInv(Scale - d, old_t)
        new_d == Scale - Pow(Scale - d1, new_t)
    IN  RateTemplate(new_d, "Effective Discount", None, Some(new_t))

nom_disc_from_eff_disc(d, new_m, old_t) ==
    LET d1 == IF old_t # None THEN eff_disc_from_eff_disc(d, Get(old_t), 1).rate ELSE d
        dm == new_m * (Scale - PowInv(Scale - d1, new_m))
    IN  RateTemplate(dm, "Nominal Discount", Some(new_m), None)

\* i is rebound to a RateTemplate only when old_t is given, and d to one only
\* when new_t is given; i.rate and d.rate are read either way
eff_disc_from_eff_int(i, old_t, new_t) ==
    IF old_t = None THEN Raise("AttributeError")
    ELSE LET i1 == eff_int_from_eff_int(i, old_t, Some(1))
             d  == discount_from_interest(i1.rate)
         IN  IF new_t = None THEN Raise("AttributeError")
             ELSE LET d1 == eff_disc_from_eff_disc(d, 1, Get(new_t))
                  IN  RateTemplate(d1.rate, "Effective Discount", None, new_t)

nom_disc_from_eff_int(i, new_m, old_t) ==
    LET i1 == IF old_t # None THEN eff_int_from_eff_int(i, old_t, Some(1)).rate ELSE i
        d  == discount_from_interest(i1)
    IN  nom_disc_from_eff_disc(d, new_m, None)

eff_int_from_eff_disc(d, old_t, new_t) ==
    LET d1 == IF old_t # None THEN eff_disc_from_eff_disc(d, Get(old_t), 1).rate ELSE d
        i1(i) == IF new_t # None THEN eff_int_from_eff_int(i, Some(1), new_t).rate ELSE i
    IN  RateTemplate(i1(interest_from_discount(d1)), "Effective Interest", None, new_t)

\* when old_t is given d is rebound to the RateTemplate itself, not to its
\* rate, and interest_from_discount then evaluates 1 - d on a RateTemplate:
\* a TypeError
nom_int_from_eff_disc(d, new_m, old_t) ==
    IF old_t # None THEN Raise("TypeError")
    ELSE nom_int_from_eff_int(interest_from_discount(d), new_m, None)

eff_int_from_nom_int(im, m, new_t) ==
    LET result(i) ==
            IF new_t # None THEN eff_int_from_eff_int(i, Some(1), new_t)
            ELSE RateTemplate(i, "Effective Interest", None, Some(1))
    IN  result(effective_from_nominal_int(im, m))

nom_int_from_nom_int(im, m, new_m) ==
    nom_int_from_eff_int(effective_from_nominal_int(im, m), new_m, None)

eff_disc_from_nom_int(im, m, new_t) ==
    LET i == effective_from_nominal_int(im, m)
        result(d) ==
            IF new_t # None THEN eff_disc_from_eff_disc(d, 1, Get(new_t))
            ELSE RateTemplate(d, "Effective Discount", None, Some(1))
    IN  result(discount_from_interest(i))

nom_disc_from_nom_int(im, m, new_m) ==
    LET p  == IF new_m = None THEN m ELSE Get(new_m)
        i  == Pow(Scale + Div(im, m * Scale), m) - Scale
        dp == (Scale - Div(Scale, PowInv(Scale + i, p))) * p
    IN  RateTemplate(dp, "Nominal Discount", Some(p), None)

eff_int_from_nom_disc(dm, m, new_t) ==
    LET d == effective_from_nominal_disc(dm, m)
        result(i) ==
            IF new_t # None THEN eff_int_from_eff_int(i, Some(1), new_t)
            ELSE RateTemplate(i, "Effective Interest", None, Some(1))
    IN  result(interest_from_discount(d))

nom_int_from_nom_disc(dm, m, new_m) ==
    LET p == IF new_m = None THEN m ELSE Get(new_m)
        i == Div(Scale, Pow(Scale - Div(dm, m * Scale), m)) - Scale
    IN  nom_int_from_eff_int(i, p, None)

eff_disc_from_nom_disc(dm, m, new_t) ==
    LET result(d) ==
            IF new_t # None THEN eff_disc_from_eff_disc(d, 1, Get(new_t))
            ELSE RateTemplate(d, "Effective Discount", None, Some(1))
    IN  result(effective_from_nominal_disc(dm, m))

nom_disc_from_nom_disc(dm, m, new_m) ==
    nom_disc_from_eff_disc(effective_from_nominal_disc(dm, m), new_m, None)

delta_from_eff_int(i, old_t) ==
    LET rate == eff_int_from_eff_int(i, old_t, Some(1))
    IN  RateTemplate(Ln(Scale + rate.rate), "Force of Interest", None, None)

delta_from_nom_int(im, m) ==
    LET rate == eff_int_from_nom_int(im, m, Some(1))
    IN  RateTemplate(Ln(Scale + rate.rate), "Force of Interest", None, None)

delta_from_eff_disc(d, old_t) ==
    LET rate == eff_int_from_eff_disc(d, old_t, Some(1))
    IN  RateTemplate(Ln(Scale + rate.rate), "Force of Interest", None, None)

delta_from_nom_disc(dm, m) ==
    LET rate == eff_int_from_nom_disc(dm, m, Some(1))
    IN  RateTemplate(Ln(Scale + rate.rate), "Force of Interest", None, None)

\* "if new_t:" is false for None and for 0
eff_int_from_delta(delta, new_t) ==
    LET result(i) ==
            IF new_t # None /\ Get(new_t) # 0 THEN eff_int_from_eff_int(i, Some(1), new_t)
            ELSE RateTemplate(i, "Effective Interest", None, Some(1))
    IN  result(Exp(delta) - Scale)

nom_int_from_delta(delta, new_m) ==
    nom_int_from_eff_int(eff_int_from_delta(delta, Some(1)).rate, new_m, Some(1))

eff_disc_from_delta(delta, new_t) ==
    eff_disc_from_eff_int(eff_int_from_delta(delta, Some(1)).rate, Some(1), new_t)

nom_disc_from_delta(delta, new_m) ==
    nom_disc_from_eff_int(eff_int_from_delta(delta, Some(1)).rate, new_m, Some(1))

any_from_eff_int(i, old_t, formal_pattern, freq, interval) ==
    CASE formal_pattern = "Effective Interest" -> eff_int_from_eff_int(i, old_t, interval)
      [] formal_pattern = "Effective Discount" -> eff_disc_from_eff_int(i, old_t, interval)
      [] formal_pattern = "Nominal Interest"   -> nom_int_from_eff_int(i, Get(freq), old_t)
      [] formal_pattern = "Nominal Discount"   -> nom_disc_from_eff_int(i, Get(freq), old_t)
      [] formal_pattern = "Force of Interest"  -> delta_from_eff_int(i, old_t)
      [] OTHER -> Raise("Exception")

any_from_eff_disc(d, old_t, formal_pattern, freq, interval) ==
    CASE formal_pattern = "Effective Interest" -> eff_int_from_eff_disc(d, old_t, interval)
      [] formal_pattern = "Effective Discount" ->
            eff_disc_from_eff_disc(d, Get(old_t), Get(interval))
      [] formal_pattern = "Nominal Interest"   -> nom_int_from_eff_disc(d, Get(freq), old_t)
      [] formal_pattern = "Nominal Discount"   -> nom_disc_from_eff_disc(d, Get(freq), old_t)
      [] formal_pattern = "Force of Interest"  -> delta_from_eff_disc(d, old_t)
      [] OTHER -> Raise("Exception")

any_from_nom_int(im, m, formal_pattern, freq, interval) ==
    CASE formal_pattern = "Effective Interest" -> eff_int_from_nom_int(im, m, interval)
      [] formal_pattern = "Effective Discount" -> eff_disc_from_nom_int(im, m, interval)
      [] formal_pattern = "Nominal Interest"   -> nom_int_from_nom_int(im, m, Get(freq))
      [] formal_pattern = "Nominal Discount"   -> nom_disc_from_nom_int(im, m, freq)
      [] formal_pattern = "Force of Interest"  -> delta_from_nom_int(im, m)
      [] OTHER -> Raise("Exception")

any_from_nom_disc(dm, m, formal_pattern, freq, interval) ==
    CASE formal_pattern = "Effective Interest" -> eff_int_from_nom_disc(dm, m, interval)
      [] formal_pattern = "Effective Discount" -> eff_disc_from_nom_disc(dm, m, interval)
      [] formal_pattern = "Nominal Interest"   -> nom_int_from_nom_disc(dm, m, freq)
      [] formal_pattern = "Nominal Discount"   -> nom_disc_from_nom_disc(dm, m, Get(freq))
      [] formal_pattern = "Force of Interest"  -> delta_from_nom_disc(dm, m)
      [] OTHER -> Raise("Exception")

any_from_delta(delta, formal_pattern, freq, interval) ==
    CASE formal_pattern = "Effective Interest" -> eff_int_from_delta(delta, interval)
      [] formal_pattern = "Effective Discount" -> eff_disc_from_delta(delta, interval)
      [] formal_pattern = "Nominal Interest"   -> nom_int_from_delta(delta, Get(freq))
      [] formal_pattern = "Nominal Discount"   -> nom_disc_from_delta(delta, Get(freq))
      [] formal_pattern = "Force of Interest"  ->
            RateTemplate(delta, "Force of Interest", None, None)
      [] OTHER -> Raise("Exception")

any_from_simp_int(s, old_t, formal_pattern, interval) ==
    LET s_std == Div(s, old_t * Scale)
    IN  IF formal_pattern = "Simple Interest"
        THEN RateTemplate(s_std * Get(interval), formal_pattern, None, interval)
        ELSE Raise("Exception")

any_from_simp_disc(d, old_t, formal_pattern, interval) ==
    LET d_std == Div(d, old_t * Scale)
    IN  IF formal_pattern = "Simple Discount"
        THEN RateTemplate(d_std * Get(interval), formal_pattern, None, interval)
        ELSE Raise("Exception")

----------------------------------------------------------------------------
(* tmval/rate.py: class Rate.  A Rate object is a record of its attributes; *)
(* a constructor call that raised is a record whose err names the          *)
(* exception.                                                              *)

RateObj(rate, pattern, formal_pattern, freq, interval) ==
    [err |-> "", rate |-> rate, pattern |-> pattern,
     formal_pattern |-> formal_pattern, freq |-> freq, interval |-> interval]

\* no Rate object: the outcome of a call that raised exception e
RateErr(e) ==
    [err |-> e, rate |-> 0, pattern |-> "", formal_pattern |-> "",
     freq |-> None, interval |-> None]

NoRate == RateErr("NoRate")

convenience_types == {"i", "d", "delta", "s", "sd"}

\* Rate.__init__(rate, pattern, freq, interval, i, d, delta, s, sd); every
\* argument is optional
RateInit(rate, pattern, freq, interval, i, d, delta, s, sd) ==
    LET \* the names of convenience_types found among the argument VALUES that
        \* are not None: only pattern holds a string
        conveniences == {c \in convenience_types : pattern # None /\ Get(pattern) = c}
        only_rate == /\ pattern = None /\ freq = None /\ interval = None
                     /\ i = None /\ d = None /\ delta = None /\ s = None /\ sd = None
        \* the attributes the branch taken assigns: <<rate, pattern, freq, interval>>
        attrs ==
            IF rate # None /\ only_rate THEN <<Get(rate), "i", NoAttr, Some(1)>>
            ELSE IF rate # None /\ pattern # None
                 THEN <<Get(rate), Get(pattern), freq, interval>>
            ELSE IF i # None THEN <<Get(i), "i", NoAttr, Some(1)>>
            ELSE IF d # None THEN <<Get(d), "d", NoAttr, Some(1)>>
            ELSE IF delta # None THEN <<Get(delta), "force", NoAttr, NoAttr>>
            ELSE IF s # None THEN <<Get(s), "s", NoAttr, Some(1)>>
            ELSE IF sd # None THEN <<Get(sd), "sd", NoAttr, Some(1)>>
            ELSE <<>>
        \* the look-up of the formal pattern and the checks that follow it
        assign(a) ==
            IF a = <<>> THEN RateErr("ValueError")
            ELSE IF a[2] \notin DOMAIN FORMAL_PATTERNS THEN RateErr("KeyError")
            ELSE IF FORMAL_PATTERNS[a[2]] \in NOMINALS /\ a[3] = None
            THEN RateErr("ValueError")
            ELSE IF FORMAL_PATTERNS[a[2]] \in EFFECTIVES /\ a[4] = None
            THEN RateErr("ValueError")
            ELSE RateObj(a[1], a[2], FORMAL_PATTERNS[a[2]], a[3], a[4])
    IN  IF Cardinality(conveniences) > 1 THEN RateErr("Exception")
        ELSE assign(attrs)

\* convert_rate's checks without the one on a Force of Interest target
convert_rate_check_no_force(self, pattern, freq, interval) ==
    IF FORMAL_PATTERNS[self.pattern] \notin COMPOUNDS /\ pattern \in COMPOUNDS
    THEN "Exception"
    ELSE IF FORMAL_PATTERNS[self.pattern] \in COMPOUNDS /\ pattern \in SIMPLES
    THEN "Exception"
    ELSE IF \/ (FORMAL_PATTERNS[self.pattern] = "Simple Interest" /\ pattern = "Simple Discount")
            \/ (FORMAL_PATTERNS[self.pattern] = "Simple Discount" /\ pattern = "Simple Interest")
    THEN "Exception"
    ELSE IF pattern \notin DOMAIN FORMAL_PATTERNS THEN "KeyError"
    ELSE IF FORMAL_PATTERNS[pattern] \in {"Effective Interest", "Effective Discount"}
    THEN (IF interval = None \/ freq # None THEN "Exception" ELSE "")
    ELSE IF FORMAL_PATTERNS[pattern] \in {"Nominal Interest", "Nominal Discount"}
    THEN (IF freq = None \/ interval # None THEN "Exception" ELSE "")
    ELSE IF FORMAL_PATTERNS[pattern] \in {"Simple Interest", "Simple Discount"}
    THEN (IF interval = None \/ freq # None THEN "Exception" ELSE "")
    ELSE ""

\* the argument checks of Rate.convert_rate: the exception raised, or ""
convert_rate_check(self, pattern, freq, interval) ==
    IF FORMAL_PATTERNS[self.pattern] \notin COMPOUNDS /\ pattern \in COMPOUNDS
    THEN "Exception"
    ELSE IF FORMAL_PATTERNS[self.pattern] \in COMPOUNDS /\ pattern \in SIMPLES
    THEN "Exception"
    ELSE IF \/ (FORMAL_PATTERNS[self.pattern] = "Simple Interest" /\ pattern = "Simple Discount")
            \/ (FORMAL_PATTERNS[self.pattern] = "Simple Discount" /\ pattern = "Simple Interest")
    THEN "Exception"
    ELSE IF pattern \notin DOMAIN FORMAL_PATTERNS THEN "KeyError"
    ELSE IF FORMAL_PATTERNS[pattern] \in {"Effective Interest", "Effective Discount"}
    THEN (IF interval = None \/ freq # None THEN "Exception" ELSE "")
    ELSE IF FORMAL_PATTERNS[pattern] \in {"Nominal Interest", "Nominal Discount"}
    THEN (IF freq = None \/ interval # None THEN "Exception" ELSE "")
    ELSE IF FORMAL_PATTERNS[pattern] \in {"Simple Interest", "Simple Discount"}
    THEN (IF interval = None \/ freq # None THEN "Exception" ELSE "")
    ELSE IF FORMAL_PATTERNS[pattern] = "Force of Interest"
    THEN (IF freq # None \/ interval # None THEN "Exception" ELSE "")
    ELSE "Exception"

\* the dispatch of Rate.convert_rate on the receiver's formal pattern
convert_rate_template(self, pattern, freq, interval) ==
    CASE self.formal_pattern = "Effective Interest" ->
            any_from_eff_int(self.rate, self.interval, pattern, freq, interval)
      [] self.formal_pattern = "Effective Discount" ->
            any_from_eff_disc(self.rate, self.interval, pattern, freq, interval)
      [] self.formal_pattern = "Nominal Interest" ->
            any_from_nom_int(self.rate, Get(self.freq), pattern, freq, interval)
      [] self.formal_pattern = "Nominal Discount" ->
            any_from_nom_disc(self.rate, Get(self.freq), pattern, freq, interval)
      [] self.formal_pattern = "Force of Interest" ->
            any_from_delta(self.rate, pattern, freq, interval)
      [] self.formal_pattern = "Simple Interest" ->
            any_from_simp_int(self.rate, Get(self.interval), pattern, interval)
      [] self.formal_pattern = "Simple Discount" ->
            any_from_simp_disc(self.rate, Get(self.interval), pattern, interval)
      [] OTHER -> Raise("Exception")

\* Rate.convert_rate(pattern, freq=None, interval=None): a new Rate, or the
\* exception raised
convert_rate(self, pattern, freq, interval) ==
    LET res(template) ==
            IF template.err # "" THEN RateErr(template.err)
            ELSE RateInit(Some(template.rate), Some(template.formal_pattern),
                          template.freq, template.interval,
                          None, None, None, None, None)
        after(chk) ==
            IF chk # "" THEN RateErr(chk)
            ELSE res(convert_rate_template(self, pattern, freq, interval))
    IN  after(convert_rate_check(self, pattern, freq, interval))

\* standardize() taking every simple rate to Simple Interest
standardize_simple_interest(self) ==
    IF self.formal_pattern \in COMPOUNDS
    THEN convert_rate(self, "Effective Interest", None, Some(1))
    ELSE convert_rate(self, "Simple Interest", None, Some(1))

\* Rate.standardize()
standardize(self) ==
    IF self.formal_pattern \in COMPOUNDS
    THEN convert_rate(self, "Effective Interest", None, Some(1))
    ELSE IF self.formal_pattern = "Simple Interest"
    THEN convert_rate(self, "Simple Interest", None, Some(1))
    ELSE IF self.formal_pattern = "Simple Discount"
    THEN convert_rate(self, "Simple Discount", None, Some(1))
    ELSE RateErr("Exception")

(* The right-hand operand of a comparison: None, a float, a Rate, or an     *)
(* object of another type.                                                  *)
PyNone == [kind |-> "None", v |-> 0, obj |-> NoRate]
PyFloat(x) == [kind |-> "float", v |-> x, obj |-> NoRate]
PyRate(o) == [kind |-> "Rate", v |-> 0, obj |-> o]
PyStr == [kind |-> "str", v |-> 0, obj |-> NoRate]

\* what a comparison returns ("True", "False", or "None" when the method falls
\* off its end), or the exception it raised
Returned(v) == [err |-> "", val |-> v]
Raised(e) == [err |-> e, val |-> "None"]
PyBool(b) == IF b THEN "True" ELSE "False"

\* the relation a comparison method applies to the two standardized magnitudes
Rel(op, a, b) ==
    CASE op = "==" -> a = b
      [] op = ">"  -> a > b
      [] op = ">=" -> a >= b
      [] op = "<"  -> a < b
      [] op = "<=" -> a <= b

\* the shared body of the comparison methods once both operands are Rates:
\* compound operands are compared as annual Effective Interest, simple
\* operands as annual Simple Interest; mixed is what the method does when
\* neither holds
compare_rates(self, other, op, mixed) ==
    LET target == IF self.formal_pattern \in COMPOUNDS /\ other.formal_pattern \in COMPOUNDS
                  THEN "Effective Interest"
                  ELSE IF self.formal_pattern \in SIMPLES /\ other.formal_pattern \in SIMPLES
                  THEN "Simple Interest"
                  ELSE ""
    IN  IF target = "" THEN mixed
        ELSE LET both(self_std, other_std) ==
                     IF self_std.err # "" THEN Raised(self_std.err)
                     ELSE IF other_std.err # "" THEN Raised(other_std.err)
                     ELSE Returned(PyBool(Rel(op, self_std.rate, other_std.rate)))
             IN  both(convert_rate(self, target, None, Some(1)),
                      convert_rate(other, target, None, Some(1)))

\* Rate.__eq__(other)
Rate_eq(self, other) ==
    IF other.kind = "None" THEN Returned("False")
    ELSE IF other.kind = "float"
    THEN LET equal(self_std) ==
                 IF self_std.err # "" THEN Raised(self_std.err)
                 ELSE Returned(PyBool(self_std.rate = other.v))
         IN  equal(standardize(self))
    ELSE IF other.kind = "Rate"
    THEN compare_rates(self, other.obj, "==", Returned("None"))
    ELSE Returned("None")

\* Rate.__ne__(other): not self.__eq__(other)
Rate_ne(self, other) ==
    LET negate(eq) ==
            IF eq.err # "" THEN eq
            ELSE Returned(PyBool(eq.val # "True"))
    IN  negate(Rate_eq(self, other))

\* Rate.__gt__, __ge__, __lt__, __le__ (op names the relation)
Rate_order(self, other, op) ==
    IF other.kind # "Rate" THEN Raised("TypeError")
    ELSE compare_rates(self, other.obj, op, Raised("TypeError"))

\* standardize_rate(gr): a float becomes Rate(gr), a Rate is standardized,
\* anything else is a TypeError
standardize_rate(gr) ==
    IF gr.kind = "float"
    THEN RateInit(Some(gr.v), None, None, None, None, None, None, None, None)
    ELSE IF gr.kind = "Rate" THEN standardize(gr.obj)
    ELSE RateErr("TypeError")

----------------------------------------------------------------------------
(* tmval/value.py: class Payments.  A Python number is a record of its     *)
(* value (in fixed point) and its type; a list is a sequence of numbers    *)
(* held in the heap, and a Payments object holds the ids of the two lists  *)
(* it was given, as the code stores the lists themselves and not copies.   *)

IntNum(n) == [v |-> n * Scale, ty |-> "int"]
FloatNum(x) == [v |-> x, ty |-> "float"]

\* Payments.__init__(amounts, times) on the heap h: the object, or the
\* exception raised
PaymentsInit(h, amounts, times) ==
    IF Len(h[amounts]) # Len(h[times])
    THEN [err |-> "Exception", amounts |-> 0, times |-> 0, gr |-> None]
    ELSE [err |-> "", amounts |-> amounts, times |-> times, gr |-> None]

\* Payments.append(amounts, times) on the heap h: the exception raised, or ""
\* and the heap after the two in-place extensions, the second of which reads
\* the heap the first has left
append(h, self, amounts, times) ==
    IF Len(h[amounts]) # Len(h[times])
    THEN [err |-> "Exception", heap |-> h]
    ELSE LET extend_times(h1) == [h1 EXCEPT ![self.times] = @ \o h1[times]]
         IN  [err |-> "",
              heap |-> extend_times([h EXCEPT ![self.amounts] = @ \o h[amounts]])]

\* Payments.__add__(other)
Payments_add(h, self, other) == append(h, self, other.amounts, other.times)

\* zip(times, amounts): the pairs up to the shorter length
zip(times, amounts) ==
    [k \in 1..(IF Len(times) < Len(amounts) THEN Len(times) ELSE Len(amounts)) |->
        <<times[k], amounts[k]>>]

\* [t, a] < [u, b] as Python orders two lists
PairLess(x, y) == x[1].v < y[1].v \/ (x[1].v = y[1].v /\ x[2].v < y[2].v)

\* x put into the sorted list after every pair that is not greater than it
RECURSIVE InsertPair(_, _)
InsertPair(sorted, x) ==
    IF sorted = <<>> THEN <<x>>
    ELSE IF PairLess(x, sorted[Len(sorted)])
         THEN Append(InsertPair(SubSeq(sorted, 1, Len(sorted) - 1), x), sorted[Len(sorted)])
         ELSE Append(sorted, x)

\* payments.sort(): stable
RECURSIVE sort(_)
sort(payments) ==
    IF payments = <<>> THEN <<>>
    ELSE InsertPair(sort(SubSeq(payments, 1, Len(payments) - 1)), payments[Len(payments)])

\* a + b for two Python numbers
NumAdd(a, b) ==
    [v |-> a.v + b.v, ty |-> IF a.ty = "float" \/ b.ty = "float" THEN "float" ELSE "int"]

\* groupby(payments, key=x[0]) with each run summed: a run of equal times is
\* keyed by its first time, and sum() starts from the int 0
RECURSIVE groupby(_, _)
groupby(payments, grouped) ==
    IF payments = <<>> THEN grouped
    ELSE IF grouped # <<>> /\ grouped[Len(grouped)][1].v = payments[1][1].v
    THEN groupby(Tail(payments),
                 [grouped EXCEPT ![Len(grouped)] = <<@[1], NumAdd(@[2], payments[1][2])>>])
    ELSE groupby(Tail(payments),
                 Append(grouped, <<payments[1][1], NumAdd(IntNum(0), payments[1][2])>>))

\* Payments.group_payments(): the dict as its <<key, value>> items in
\* insertion order
group_payments(h, self) ==
    groupby(sort(zip(h[self.times], h[self.amounts])), <<>>)

\* int(x) for a Python number: truncation toward zero
int(x) == IF x.v >= 0 THEN x.v \div Scale ELSE -((-x.v) \div Scale)

\* max(payments_dict, key=int): the first key whose int() is largest
RECURSIVE max_key(_, _)
max_key(items, best) ==
    IF items = <<>> THEN best
    ELSE max_key(Tail(items), IF int(items[1][1]) > int(best) THEN items[1][1] ELSE best)

\* payments_dict[i] if i in payments_dict else 0, for the int i
coefficient(payments_dict, i) ==
    IF \E k \in DOMAIN payments_dict : payments_dict[k][1].v = i * Scale
    THEN payments_dict[CHOOSE k \in DOMAIN payments_dict : payments_dict[k][1].v = i * Scale][2]
    ELSE IntNum(0)

\* Payments.irr(x0) up to the call of the solver: which solver is called and
\* on what, or the exception raised
irr(h, self, x0) ==
    LET solve(payments_dict) ==
            IF payments_dict = <<>>
            THEN [err |-> "ValueError", solver |-> "", coefficients |-> <<>>,
                  payments_dict |-> <<>>, x0 |-> None]
            ELSE IF \A k \in DOMAIN payments_dict : payments_dict[k][1].ty = "int"
            THEN [err |-> "", solver |-> "np.roots",
                  coefficients |->
                      [i \in 1..(int(max_key(payments_dict, payments_dict[1][1])) + 1) |->
                          coefficient(payments_dict, i - 1)],
                  payments_dict |-> <<>>, x0 |-> None]
            ELSE [err |-> "", solver |-> "newton", coefficients |-> <<>>,
                  payments_dict |-> payments_dict, x0 |-> Some(x0)]
    IN  solve(group_payments(h, self))

\* a root as the solvers hand it back: its real part, and whether its
\* imaginary part is zero
RealRoot(x) == [re |-> x, real |-> TRUE]
ComplexRoot(x) == [re |-> x, real |-> FALSE]

\* the largest r in lo..hi with r * r <= x * Scale: the square root of x >= 0
RECURSIVE SqrtIn(_, _, _)
SqrtIn(x, lo, hi) ==
    IF lo >= hi THEN lo
    ELSE LET mid == (lo + hi + 1) \div 2
         IN  IF mid <= (x * Scale) \div mid THEN SqrtIn(x, mid, hi)
             ELSE SqrtIn(x, lo, mid - 1)

\* the eigenvalues of the companion matrix of a * x^2 + b * x + c, a # 0: the
\* arrays np.roots can return.  A vanishing discriminant comes back as a real
\* double root or, from rounding, as a conjugate pair.
quadratic_roots(a, b, c) ==
    LET pair(disc) ==
            IF disc < 0
            THEN {<<ComplexRoot(Div(-b, 2 * a)), ComplexRoot(Div(-b, 2 * a))>>}
            ELSE IF disc = 0
            THEN {<<RealRoot(Div(-b, 2 * a)), RealRoot(Div(-b, 2 * a))>>,
                  <<ComplexRoot(Div(-b, 2 * a)), ComplexRoot(Div(-b, 2 * a))>>}
            ELSE LET both(s) == {<<RealRoot(Div(-b + s, 2 * a)), RealRoot(Div(-b - s, 2 * a))>>}
                 IN  both(SqrtIn(disc, 0, disc + Scale))
    IN  pair(Mul(b, b) - 4 * Mul(a, c))

\* the eigenvalues of the companion matrix of a * x^n + c, n >= 3, c # 0: the
\* real n-th roots of -c / a, then the n - 1 or n - 2 roots that are not real
binomial_roots(a, n, c) ==
    LET others(k) == [j \in 1..k |-> ComplexRoot(0)]
        of(q) ==
            IF n % 2 = 1
            THEN {<<RealRoot(IF q > 0 THEN PowInv(q, n) ELSE -PowInv(-q, n))>> \o others(n - 1)}
            ELSE IF q > 0
            THEN {<<RealRoot(PowInv(q, n)), RealRoot(-PowInv(q, n))>> \o others(n - 2)}
            ELSE {others(n)}
    IN  of(Div(-c, a))

\* np.roots(p) for the polynomials the payments give (degree at most 2 once
\* the zero coefficients at both ends are stripped, or two terms only): the
\* arrays it can return, a root at zero for every trailing zero coefficient
np_roots(p) ==
    LET nz == {k \in DOMAIN p : p[k] # 0}
        strip(first, lst) ==
            LET zeros == [k \in 1..(Len(p) - lst) |-> RealRoot(0)]
                eig ==
                    IF lst = first THEN {<<>>}
                    ELSE IF lst = first + 1 THEN {<<RealRoot(Div(-p[lst], p[first]))>>}
                    ELSE IF lst = first + 2
                    THEN quadratic_roots(p[first], p[first + 1], p[lst])
                    ELSE IF \A k \in (first + 1)..(lst - 1) : p[k] = 0
                    THEN binomial_roots(p[first], lst - first, p[lst])
                    ELSE {}
            IN  {r \o zeros : r \in eig}
    IN  IF nz = {} THEN {<<>>}
        ELSE strip(CHOOSE k \in nz : \A j \in nz : k <= j,
                   CHOOSE k \in nz : \A j \in nz : j <= k)

\* np.isreal(x) for one root
np_isreal(x) == x.real

\* [np.real(x) - 1 for x in reals]
i_s_unshifted(reals) == [k \in DOMAIN reals |-> reals[k].re]
i_s(reals) == [k \in DOMAIN reals |-> reals[k].re - Scale]

\* the amount payments_dict holds at the time h / 2, or 0
f_term(payments_dict, h) ==
    IF \E k \in DOMAIN payments_dict : 2 * payments_dict[k][1].v = h * Scale
    THEN payments_dict[CHOOSE k \in DOMAIN payments_dict :
                           2 * payments_dict[k][1].v = h * Scale][2].v
    ELSE 0

\* the x > 0 with f(x) = 0 for f(x) = sum(payments_dict[k] * x ** -k), the
\* times k being 0, 0.5 or 1: with y = x ** -0.5, the y > 0 with
\* f_term(0) + f_term(1) * y + f_term(2) * y^2 = 0
f_roots(payments_dict) ==
    LET positive(ys) ==
            {Div(Scale, Mul(ys[k].re, ys[k].re)) :
                k \in {j \in DOMAIN ys : ys[j].real /\ ys[j].re > 0
                                          /\ Mul(ys[j].re, ys[j].re) > 0}}
    IN  UNION {positive(ys) :
                 ys \in np_roots(<<f_term(payments_dict, 2), f_term(payments_dict, 1),
                                   f_term(payments_dict, 0)>>)}

\* newton(func=f, x0=x0), the secant iteration of scipy from the real x0: it
\* returns a root of f it has converged to, or raises after its last
\* iteration; where f has no root it raises, or returns the iterate it
\* stopped at, which is complex once an iterate has fallen below zero
newton(payments_dict, x0) ==
    LET found(xs) ==
            {[err |-> "", root |-> RealRoot(x)] : x \in xs}
            \cup {[err |-> "RuntimeError", root |-> RealRoot(0)]}
            \cup (IF xs = {}
                  THEN {[err |-> "", root |-> ComplexRoot(x0.v)],
                        [err |-> "", root |-> RealRoot(x0.v)]}
                  ELSE {})
    IN  found(f_roots(payments_dict))

\* Payments.irr(x0) from the call of the solver on: the outcomes the call
\* can have, each with the warning given and the list returned
irr_outcomes(call) ==
    LET result(err, warned, rates) ==
            [err |-> err, solver |-> call.solver, coefficients |-> call.coefficients,
             payments_dict |-> call.payments_dict, x0 |-> call.x0,
             warned |-> warned, i_s |-> rates]
        filtered(reals) == result("", reals = <<>>, i_s(reals))
        wrapped(res) ==
            IF res.err # "" THEN result(res.err, FALSE, <<>>)
            ELSE result("", FALSE, i_s(SelectSeq(<<res.root>>, np_isreal)))
    IN  IF call.err # "" THEN {result(call.err, FALSE, <<>>)}
        ELSE IF call.solver = "np.roots"
        THEN {filtered(SelectSeq(roots, np_isreal)) :
                 roots \in np_roots([k \in DOMAIN call.coefficients |->
                                        call.coefficients[k].v])}
        ELSE {wrapped(res) : res \in newton(call.payments_dict, Get(call.x0))}

\* A growth object bound to a Payments object: its class, and for an
\* Accumulation its law (compound at interest_rate, simple at
\* interest_rate, or tiered by time) and whether the law is level

\* standardize_acc(gr) for a float gr: the compound accumulation at the annual
\* effective interest rate gr, which is level
standardize_acc(gr) ==
    [cls |-> "Accumulation", law |-> "compound", interest_rate |-> gr, is_level |-> TRUE,
     tiers |-> <<>>, rates |-> <<>>]

\* SimpleAcc(s): an Accumulation that is not compound
SimpleAcc(s) ==
    [cls |-> "Accumulation", law |-> "simple", interest_rate |-> s, is_level |-> FALSE,
     tiers |-> <<>>, rates |-> <<>>]

\* TieredBal(tiers, rates): the object holds the two lists and is callable;
\* it has neither val nor discount_func
TieredBal(tiers, rates) ==
    [cls |-> "TieredBal", law |-> "", interest_rate |-> 0, is_level |-> FALSE,
     tiers |-> tiers, rates |-> rates]

\* TieredTime.__call__(k, t): k accumulated over the tiers that start before
\* t, each at its rate up to the start of the next tier or to t
RECURSIVE TieredTime_call(_, _, _, _)
TieredTime_call(tiers, rates, k, t) ==
    LET jump_times == SelectSeq(tiers, LAMBDA i : i < t)
        grown(bal, j, times) ==
            FMul(bal, FPowT(Fine + rates[j], times[j + 1] - times[j]))
        through(n, times) ==
            IF n = 0 THEN k
            ELSE grown(TieredTime_call(SubSeq(tiers, 1, n - 1), rates, k, times[n]),
                       n, times)
    IN  through(Len(jump_times), Append(jump_times, t))

\* the values a caller passes as gr: a float, a Rate, an Accumulation that
\* is compound or simple, a TieredTime, a TieredBal, or a string
GrFloat(x) ==
    [kind |-> "float", v |-> x, obj |-> NoRate, law |-> "", tiers |-> <<>>, rates |-> <<>>]
GrRate(o) ==
    [kind |-> "Rate", v |-> 0, obj |-> o, law |-> "", tiers |-> <<>>, rates |-> <<>>]
GrAccumulation(law, x) ==
    [kind |-> "Accumulation", v |-> x, obj |-> NoRate, law |-> law,
     tiers |-> <<>>, rates |-> <<>>]
GrTieredTime(tiers, rates) ==
    [kind |-> "TieredTime", v |-> 0, obj |-> NoRate, law |-> "",
     tiers |-> tiers, rates |-> rates]
GrTieredBal(tiers, rates) ==
    [kind |-> "TieredBal", v |-> 0, obj |-> NoRate, law |-> "",
     tiers |-> tiers, rates |-> rates]
GrStr ==
    [kind |-> "str", v |-> 0, obj |-> NoRate, law |-> "", tiers |-> <<>>, rates |-> <<>>]

\* standardize_acc(gr) for the other kinds of gr: a Rate gives the compound
\* accumulation at its annual effective interest rate, a compound
\* Accumulation the same law, a TieredTime the accumulation of its law
standardize_acc_of(gr) ==
    IF gr.kind = "float" THEN standardize_acc(gr.v)
    ELSE IF gr.kind = "Rate" THEN standardize_acc(standardize(gr.obj).rate * Scale)
    ELSE IF gr.kind = "Accumulation" THEN standardize_acc(gr.v)
    ELSE [cls |-> "Accumulation", law |-> "tiered_time", interest_rate |-> 0,
          is_level |-> FALSE, tiers |-> gr.tiers, rates |-> gr.rates]

\* Payments.set_accumulation(gr): the growth object bound, or the exception
set_accumulation(gr) ==
    IF gr.kind \in {"float", "Rate", "TieredTime"}
    THEN [err |-> "", acc |-> Some(standardize_acc_of(gr))]
    ELSE IF gr.kind = "Accumulation"
    THEN [err |-> "",
          acc |-> Some(IF gr.law = "compound" THEN standardize_acc_of(gr)
                       ELSE SimpleAcc(gr.v))]
    ELSE IF gr.kind = "TieredBal"
    THEN [err |-> "", acc |-> Some(TieredBal(gr.tiers, gr.rates))]
    ELSE [err |-> "Exception", acc |-> None]

\* Payments.__init__(amounts, times, gr) with a gr that is not None
PaymentsInit_gr(h, amounts, times, gr) ==
    LET bound(obj, set) ==
            IF obj.err # "" THEN obj
            ELSE IF set.err # "" THEN [obj EXCEPT !.err = set.err]
            ELSE [obj EXCEPT !.gr = set.acc]
    IN  bound(PaymentsInit(h, amounts, times), set_accumulation(gr))

\* CompoundAcc.acc_func(t): (1 + interest_rate) ** t
CompoundAcc_acc_func(self, t) == FPowT(Fine + self.interest_rate, t)

\* SimpleAcc.acc_func(t): 1 + interest_rate * t
SimpleAcc_acc_func(self, t) == Fine + FMul(self.interest_rate, t)

\* Accumulation.val(t): the function the accumulation was built on, at t
val(acc, t) ==
    IF acc.law = "compound" THEN CompoundAcc_acc_func(acc, t)
    ELSE IF acc.law = "simple" THEN SimpleAcc_acc_func(acc, t)
    ELSE TieredTime_call(acc.tiers, acc.rates, Fine, t)

\* Accumulation.discount_func(t, fv): fv / val(t)
discount_func(acc, t, fv) == FDiv(fv, val(acc, t))

\* the magnitudes, to eight places, of a list of Python numbers
Magnitudes(list) == [k \in DOMAIN list |-> list[k].v * Scale]

\* sum(xs) for a list of floats
RECURSIVE py_sum(_)
py_sum(xs) == IF xs = <<>> THEN 0 ELSE xs[1] + py_sum(Tail(xs))

\* Payments.npv(gr) on an object whose growth object is self_gr and whose
\* lists hold the magnitudes times and amounts: the value, or the exception
\* (an object that is not an Accumulation has no discount_func)
npv(self_gr, times, amounts, gr) ==
    LET discounted(acc, pairs) ==
            IF pairs # <<>> /\ acc.cls # "Accumulation"
            THEN [err |-> "AttributeError", pv |-> 0]
            ELSE [err |-> "",
                  pv |-> py_sum([k \in DOMAIN pairs |->
                                   discount_func(acc, pairs[k][1], pairs[k][2])])]
    IN  IF gr = None
        THEN IF self_gr = None THEN [err |-> "Exception", pv |-> 0]
             ELSE discounted(Get(self_gr), zip(times, amounts))
        ELSE discounted(standardize_acc(Get(gr)), zip(times, amounts))

\* Payments.eq_val(t, gr): the value at time t, or the exception
eq_val(self_gr, times, amounts, t, gr) ==
    LET restated(acc, pairs) ==
            IF pairs # <<>> /\ acc.cls # "Accumulation"
            THEN [err |-> "AttributeError", b |-> 0]
            ELSE [err |-> "",
                  b |-> py_sum([k \in DOMAIN pairs |->
                                  FDiv(FMul(pairs[k][1], val(acc, t)), val(acc, pairs[k][2]))])]
    IN  IF gr = None
        THEN IF self_gr = None THEN [err |-> "Exception", b |-> 0]
             ELSE restated(Get(self_gr), zip(amounts, times))
        ELSE restated(standardize_acc(Get(gr)), zip(amounts, times))

----------------------------------------------------------------------------
(* tmval/annuity.py: class Annuity, for a numeric amount, a positive       *)
(* period, a numeric aprog, and neither times nor reinv supplied.  The     *)
(* arguments of the constructor are the record a; magnitudes are to eight  *)
(* places, the payment count n is a whole number.                          *)

\* np.inf, as a term or a payment count
Inf == -1

\* Annuity.get_r_pmt(gr): the payment count as if fractional periods were
\* allowed, or the exception (None as the loan; the log of a number that is
\* not positive, which floor and ceil reject)
get_r_pmt(gr, period, loan, amount) ==
    LET count(i, x) ==
            IF x <= 0 THEN [err |-> "ValueError", r |-> 0]
            ELSE [err |-> "", r |-> FDiv(-FLn(x), FLn(Fine + i))]
        of_rate(i) == count(i, Fine - FDiv(FMul(i, Get(loan)), amount))
    IN  IF loan = None THEN [err |-> "TypeError", r |-> 0]
        ELSE of_rate(val(standardize_acc(gr), period) - Fine)

\* Annuity.__init__, lines 141-164: the term and the payment count r implied
\* by the arguments
resolve_term(a) ==
    LET with_n(n, rp) ==
            IF rp.err # "" THEN [err |-> rp.err, term |-> 0, r |-> 0]
            ELSE [err |-> "",
                  term |-> IF n = Inf THEN Inf ELSE n * a.period,
                  r |-> IF n = Inf THEN Inf
                        ELSE IF rp.r > n * Fine THEN rp.r ELSE n * Fine]
        rounded(rp) ==
            IF rp.err # "" THEN [err |-> rp.err, term |-> 0, r |-> 0]
            ELSE LET whole(r) == [err |-> "", term |-> r * a.period, r |-> r * Fine]
                 IN  whole(IF a.drb = Some("drop") THEN ceil(rp.r) ELSE floor(rp.r))
    IN  IF a.term = None
        THEN IF a.n # None /\ Get(a.n) # 0
             THEN IF a.loan = None
                  THEN with_n(Get(a.n), [err |-> "", r |-> 0])
                  ELSE with_n(Get(a.n), get_r_pmt(a.gr, a.period, a.loan, a.amount))
             ELSE rounded(get_r_pmt(a.gr, a.period, a.loan, a.amount))
        ELSE [err |-> "", term |-> Get(a.term),
              r |-> IF Get(a.term) = Inf THEN Inf ELSE FDiv(Get(a.term), a.period)]

\* Annuity.__init__, lines 207-222: the number of scheduled payments and the
\* fraction f of a period left over
count_payments(a, term, r) ==
    IF a.n = None /\ a.term # None
    THEN [n_payments |-> floor(FDiv(term, a.period)), f |-> 0]
    ELSE IF a.n = None /\ a.term = None
    THEN LET split(rp) == [n_payments |-> floor(rp), f |-> rp - floor(rp) * Fine]
         IN  split(get_r_pmt(a.gr, a.period, a.loan, a.amount).r)
    ELSE IF r > Get(a.n) * Fine
    THEN [n_payments |-> Get(a.n) - 1, f |-> r - (Get(a.n) - 1) * Fine]
    ELSE [n_payments |-> Get(a.n), f |-> 0]

\* Annuity.__init__, lines 124-131: mprog is 1 when aprog is a number, and
\* aprog[1] * period when aprog is a tuple (aprog_m holding its second entry)
mprog(a) == IF a.aprog_m = None THEN Fine ELSE Get(a.aprog_m) * a.period

\* Annuity.__init__, lines 225-226: the scheduled amounts
scheduled_amounts(a, n_payments) ==
    [k \in 1..n_payments |->
        FMul(a.amount, FPow(Fine + a.gprog, k - 1)) + a.aprog * floor((k - 1) * mprog(a))]

\* Annuity.__init__, lines 227 and 246-247: the scheduled times, moved by a
\* positive deferral
scheduled_times_undeferred(a, n_payments) ==
    [k \in 1..n_payments |-> a.period * ((k - 1) + (IF a.imd = "immediate" THEN 1 ELSE 0))]
scheduled_times(a, n_payments) ==
    [k \in 1..n_payments |->
        a.period * ((k - 1) + (IF a.imd = "immediate" THEN 1 ELSE 0))
        + (IF a.deferral > 0 THEN a.deferral ELSE 0)]

\* Annuity.get_drop(gr)
get_drop(a) ==
    LET drop(i, f) ==
            FMul(FDiv(FMul(a.amount, FPowT(Fine + i, f) - Fine), i),
                 FPowT(Fine + i, Fine - f))
        of_count(i, r) == drop(i, r - floor(r) * Fine)
    IN  of_count(val(standardize_acc(a.gr), a.period) - Fine,
                 get_r_pmt(a.gr, a.period, a.loan, a.amount).r)

\* Annuity.get_balloon(gr)
get_balloon(a) ==
    LET balloon(i, f) ==
            a.amount + FDiv(FMul(a.amount, FDiv(FPowT(Fine + i, f) - Fine, i)),
                            FPowT(Fine + i, f))
        of_count(i, r) == balloon(i, r - floor(r) * Fine)
    IN  of_count(val(standardize_acc(a.gr), a.period) - Fine,
                 get_r_pmt(a.gr, a.period, a.loan, a.amount).r)

\* the closed form of Annuity.sv() for level payments under a level rate
sv_level_annual(acc, amount, period, term) ==
    FDiv(FMul(amount, FPowT(Fine + acc.interest_rate, term) - Fine), acc.interest_rate)
sv_level(acc, amount, period, term) ==
    FDiv(FMul(amount, FPowT(Fine + acc.interest_rate, term) - Fine), val(acc, period) - Fine)

\* olb_r(loan, q, period, gr, t): the loan accumulated to t less the
\* accumulated value of the payments of q, or the exception (None as the loan)
olb_r(loan, q, period, gr, t) ==
    LET balance(olb) == [err |-> "", olb |-> IF olb > 0 THEN olb ELSE 0]
    IN  IF loan = None THEN [err |-> "TypeError", olb |-> 0]
        ELSE balance(FMul(Get(loan), val(standardize_acc(gr), t))
                     - sv_level(standardize_acc(gr), q, period, t))

\* no Annuity object, and the exception a constructor raises
NoAnnuity == [err |-> "NoAnnuity"]
AnnuityErr(e) == [err |-> e]

\* the Annuity object that __init__ leaves
AnnuityObj(a, term, n_payments, amounts, times, drb_pmt, is_level_pmt, ann_perp) ==
    [err |-> "", term |-> term, amount |-> a.amount, period |-> a.period, imd |-> a.imd,
     gprog |-> a.gprog, aprog |-> a.aprog, mprog |-> mprog(a), is_level_pmt |-> is_level_pmt,
     reinv |-> None, deferral |-> a.deferral, loan |-> a.loan, n_payments |-> n_payments,
     drb_pmt |-> drb_pmt, ann_perp |-> ann_perp, amounts |-> amounts, times |-> times,
     gr |-> Some(standardize_acc(a.gr)), pattern |-> <<ann_perp, a.imd>>]

\* Annuity.__init__(gr, amount, period, term, n, gprog, aprog, deferral, imd,
\* loan, drb): the object, or the exception raised.  The payments of a
\* perpetuity are generators, held here as empty lists.
AnnuityInit(a) ==
    LET checked(obj) ==
            IF a.imd \notin {"immediate", "due"} THEN AnnuityErr("ValueError") ELSE obj
        built(term, n_payments, amounts, times, drb_pmt) ==
            checked(AnnuityObj(a, term, n_payments, amounts, times, drb_pmt,
                IF a.gprog = 0 /\ a.aprog = 0 /\ drb_pmt = None THEN TRUE
                ELSE IF a.gprog # 0 \/ a.aprog # 0 THEN FALSE
                ELSE \A k \in DOMAIN amounts : amounts[k] = amounts[1],
                "annuity"))
        ballooned(term, n_payments, amounts, times, pmt) ==
            built(term, n_payments, [amounts EXCEPT ![n_payments] = pmt], times, Some(pmt))
        appended(term, n_payments, amounts, times, pmt) ==
            built(term, n_payments, Append(amounts, pmt), Append(times, term), Some(pmt))
        settled(term, n_payments, amounts, times, olb) ==
            IF olb.err # "" THEN AnnuityErr(olb.err)
            ELSE appended(term, n_payments, amounts, times, a.amount + olb.olb)
        final_payment(term, cnt, amounts, times) ==
            IF 0 < cnt.f /\ cnt.f < Fine
            THEN IF a.drb = Some("balloon")
                 THEN IF cnt.n_payments = 0 THEN AnnuityErr("IndexError")
                      ELSE ballooned(term, cnt.n_payments, amounts, times, get_balloon(a))
                 ELSE IF a.drb = Some("drop")
                 THEN appended(term, cnt.n_payments + 1, amounts, times, get_drop(a))
                 ELSE built(term, cnt.n_payments, amounts, times, None)
            ELSE IF Fine <= cnt.f
            THEN settled(term, cnt.n_payments, amounts, times,
                         olb_r(a.loan, a.amount, a.period, a.gr, term))
            ELSE built(term, cnt.n_payments, amounts, times, None)
        finite(term, cnt) ==
            final_payment(term, cnt, scheduled_amounts(a, cnt.n_payments),
                          scheduled_times(a, cnt.n_payments))
        perpetuity(term) ==
            checked(AnnuityObj(a, term, Inf, <<>>, <<>>, None, a.gprog = 0, "perpetuity"))
        resolved(res) ==
            IF res.err # "" THEN AnnuityErr(res.err)
            ELSE IF res.term = Inf \/ a.n = Some(Inf) THEN perpetuity(res.term)
            ELSE finite(res.term, count_payments(a, res.term, res.r))
    IN  resolved(resolve_term(a))

\* Payments.npv() and Payments.eq_val(t) as an Annuity object inherits them
Annuity_npv(self) == npv(self.gr, self.times, self.amounts, None)
Annuity_eq_val(self, t) == eq_val(self.gr, self.times, self.amounts, t, None)

\* Annuity.pv() of an annuity that is not a perpetuity, lines 340-402: the
\* branch taken and the value it computes, before the factor of an
\* annuity-due and the discount over the deferral.  The generic branch sets
\* skip_due.  In the arithmetic branch q / i * x is taken as (q * x) / i.
pv_branch(self) ==
    LET acc == Get(self.gr)
        closed(i, g) ==
            IF round5(i - g) # 0
            THEN [branch |-> "geometric", skip_due |-> FALSE,
                  pv |-> FMul(self.amount,
                              FDiv(Fine - FPow(FDiv(Fine + g, Fine + i), self.n_payments),
                                   i - g))]
            ELSE [branch |-> "limit", skip_due |-> FALSE,
                  pv |-> FDiv(self.n_payments * self.amount, Fine + i)]
        increasing(i, n, q, p, v_n) ==
            LET formula(a_n) ==
                    FMul(p, a_n) + FDiv(FMul(q, a_n - n * v_n), i)
            IN  [branch |-> "arithmetic", skip_due |-> FALSE,
                 pv |-> formula(FDiv(Fine - v_n, i))]
        arithmetic(i) ==
            increasing(i, self.n_payments, self.aprog, self.amount,
                       FDiv(Fine, FPow(Fine + i, self.n_payments)))
    IN  IF acc.is_level /\ (self.is_level_pmt \/ self.gprog # 0)
        THEN closed(val(acc, self.period) - Fine, self.gprog)
        ELSE IF self.aprog # 0 /\ self.mprog = 0
        THEN arithmetic(val(acc, self.period) - Fine)
        ELSE [branch |-> "npv", skip_due |-> TRUE, pv |-> Annuity_npv(self).pv]

\* Annuity.pv(), lines 404-416: the value of the branch, times 1 + i for an
\* annuity-due unless skip_due is set, times the discount over a positive
\* deferral
Annuity_pv(self) ==
    LET acc == Get(self.gr)
        deferred(pv) ==
            IF self.deferral > 0 THEN FMul(pv, discount_func(acc, self.deferral, Fine)) ELSE pv
        due(b) ==
            deferred(IF self.imd = "due" /\ ~b.skip_due
                     THEN FMul(b.pv, val(acc, self.period)) ELSE b.pv)
    IN  due(pv_branch(self))

\* Annuity.sv() of an annuity that is not a perpetuity: the closed form for
\* level payments, then the accumulation over the deferral and the factor
\* of an annuity-due; else eq_val(term + deferral)
Annuity_sv(self) ==
    LET acc == Get(self.gr)
        due(sv) == IF self.imd = "due" THEN FMul(sv, val(acc, self.period)) ELSE sv
        deferred(sv) == due(IF self.deferral # 0 THEN FMul(sv, val(acc, self.deferral)) ELSE sv)
    IN  IF acc.is_level /\ self.is_level_pmt /\ self.reinv = None
        THEN deferred(sv_level(acc, self.amount, self.period, self.term))
        ELSE Annuity_eq_val(self, self.term + self.deferral).b

----------------------------------------------------------------------------
(* annuity.py: the generators perp_series and perp_times of a perpetuity.  *)
(* A generator is its local variable curr, the last two values it has      *)
(* yielded and whether it has returned.                                    *)

NoGen == [state |-> "none"]

\* the generator object a call of perp_series(t) or perp_times(t) returns,
\* its body not yet entered: curr is assigned by the first next()
NewGenerator == [curr |-> None, prev |-> None, last |-> None, done |-> FALSE]

\* the value of curr when the generator g is resumed: curr0 when its body is
\* entered, else what it held plus what the loop body adds to it
generator_resume(g, curr0, step) ==
    IF g.curr = None THEN curr0 ELSE Get(g.curr) + step

\* one next() on the generator g resumed with curr, v being what the loop
\* yields for that curr: the loop yields while curr < t and returns otherwise
generator_next(g, t, curr, v) ==
    IF curr * Fine < t
    THEN [curr |-> Some(curr), prev |-> g.last, last |-> Some(v), done |-> FALSE]
    ELSE [g EXCEPT !.curr = Some(curr), !.done = TRUE]

\* next() on perp_series(t): yields start * factor ** curr, then curr += 1
perp_series_next(self, g, t) ==
    LET yield(curr) ==
            generator_next(g, t, curr, FMul(self.amount, FPow(Fine + self.gprog, curr)))
    IN  yield(generator_resume(g, 0, 1))

\* next() on perp_times(t): curr = 0 + 1 if imd == 'immediate' else 0; yields
\* curr + 1, and the loop body assigns nothing to curr
perp_times_next(self, g, t) ==
    LET yield(curr) == generator_next(g, t, curr, (curr + 1) * Fine)
    IN  yield(generator_resume(g, IF self.imd = "immediate" THEN 0 + 1 ELSE 0, 0))

----------------------------------------------------------------------------
(* growth.py: SimpleLoan.                                                  *)

NoLoan == [err |-> "NoLoan"]

\* SimpleLoan(principal, term, discount_amt, discount_rate): the object, or
\* the exception raised. Both given and neither given raise Exception; the
\* amount available is principal - discount_amt of the ARGUMENT discount_amt,
\* which is None when only the rate is given (TypeError); a discount amount
\* over a principal of 0 is a ZeroDivisionError
SimpleLoan(principal, term, discount_amt, discount_rate) ==
    LET raise(e) == [err |-> e]
        object(amt, rate) ==
            IF discount_amt = None THEN raise("TypeError")
            ELSE [err |-> "",
                  principal |-> principal,
                  discount_rate |-> rate,
                  discount_amt |-> amt,
                  amount_available |-> principal - Get(discount_amt),
                  term |-> term]
    IN  IF discount_amt # None /\ discount_rate # None THEN raise("Exception")
        ELSE IF discount_amt = None /\ discount_rate = None THEN raise("Exception")
        ELSE IF discount_rate # None
             THEN object(FMul(principal, Get(discount_rate)), Get(discount_rate))
        ELSE IF principal = 0 THEN raise("ZeroDivisionError")
        ELSE object(Get(discount_amt), FDiv(Get(discount_amt), principal))

\* SimpleLoan.__call__(k, t): the value, or the exception outside of the
\* origination and termination dates
SimpleLoan_call(self, k, t) ==
    IF ~(t = 0 \/ t = self.term) THEN [err |-> "Exception", value |-> 0]
    ELSE IF t = 0 THEN [err |-> "", value |-> k - self.discount_amt]
    ELSE [err |-> "", value |-> k]

----------------------------------------------------------------------------
(* tmval/bond.py: Bond.__init__, for a numeric face, a numeric alpha and    *)
(* cfreq or a nominal Rate cgr, and a term of whole coupon periods.  The    *)
(* constructor chooses what to solve for by which arguments are None, so    *)
(* an argument is modelled by whether it was supplied (TRUE) or is None     *)
(* (FALSE), and an attribute of the object by whether it holds a value      *)
(* ("num"), holds None ("None") or was never assigned ("unset").            *)

NoBond == [err |-> "NoBond"]

TooManyMissing == "Unable to evaluate bond. Too many missing arguments."

BondAttributes ==
    {"face", "term", "k", "cgr", "alpha", "cfreq", "fr", "fr_is_level",
     "is_term_floor", "n_coupons", "red", "gr", "price", "coupons",
     "amounts", "times", "j", "base", "g", "premium", "discount"}

\* the attribute value an argument leaves
Held(arg) == IF arg THEN "num" ELSE "None"

\* self.<name> = v, unless an exception is already propagating
SetAttr(self, name, v) ==
    IF self.err # "" THEN self ELSE [self EXCEPT !.at[name] = v]

\* an expression that reads the attributes names and computes with their
\* values: an attribute never assigned raises AttributeError, a None operand
\* raises TypeError
ReadAttrs(self, names) ==
    IF self.err # "" THEN self
    ELSE IF \E n \in names : self.at[n] = "unset" THEN [self EXCEPT !.err = "AttributeError"]
    ELSE IF \E n \in names : self.at[n] = "None" THEN [self EXCEPT !.err = "TypeError"]
    ELSE self

\* an expression that computes with the arguments in args
ReadArgs(self, args) ==
    IF self.err # "" THEN self
    ELSE IF FALSE \in args THEN [self EXCEPT !.err = "TypeError"]
    ELSE self

BondRaise(self, e) == IF self.err # "" THEN self ELSE [self EXCEPT !.err = e]

\* parse_cgr(alpha, cfreq, cgr): the error it raises, "" when it returns
parse_cgr(alpha, cfreq, cgr) ==
    IF alpha /\ cfreq THEN ""
    ELSE IF cgr THEN ""
    ELSE "Cannot determine coupon rate."

\* self.get_coupon_amt(), for level coupons
get_coupon_amt(self) == ReadAttrs(self, {"face", "alpha", "cfreq"})

\* self.term_floor()
term_floor(self) ==
    IF self.err # "" THEN self
    ELSE IF self.at["alpha"] = "None" /\ self.at["cfreq"] = "None" /\ self.at["fr"] = "None"
    THEN self
    ELSE IF self.at["alpha"] = "num" \/ (self.at["alpha"] = "None" /\ self.at["cfreq"] # "None")
    THEN ReadAttrs(self, {"term", "cfreq"})
    ELSE BondRaise(self, "TypeError")

\* self.get_n_coupons()
get_n_coupons(self) ==
    IF self.err # "" \/ self.is_zero THEN self
    ELSE ReadAttrs(ReadAttrs(self, {"fr_is_level"}), {"term", "cfreq"})

\* self.get_coupons(): None for a zero-coupon bond, else an Annuity of fr
get_coupons(self) ==
    IF self.err # "" THEN self
    ELSE IF self.is_zero THEN SetAttr(self, "coupons", "None")
    ELSE SetAttr(ReadAttrs(ReadAttrs(self, {"fr_is_level"}), {"term", "cfreq", "gr", "fr"}),
                 "coupons", "num")

\* self.get_coupon_times()
get_coupon_times(self) ==
    IF self.err # "" \/ self.is_zero THEN self
    ELSE ReadAttrs(ReadAttrs(self, {"fr_is_level"}), {"n_coupons", "cfreq"})

\* self.get_redemption()
get_redemption(self) ==
    IF self.is_zero THEN ReadAttrs(self, {"price", "gr", "term"})
    ELSE ReadAttrs(self, {"price", "coupons", "gr", "term"})

\* self.makeham()
makeham(self) == ReadAttrs(self, {"k", "gr", "cfreq", "g", "red"})

\* self.base_amount()
base_amount(self) == ReadAttrs(ReadAttrs(self, {"gr", "cfreq"}), {"fr", "red", "term"})

\* standardize_acc(gr), whose definition is not in growth.py: the compound
\* accumulation of the rate, which needs the rate
standardize_acc_arg(self, gr) == SetAttr(ReadArgs(self, {gr}), "gr", "num")

\* the statements of __init__ up to the count of the missing arguments
BondArguments(a) ==
    LET c_args == a.cgr \/ a.alpha
        s0 == [err |-> "", is_zero |-> ~(a.alpha \/ a.cfreq \/ a.fr \/ a.cgr),
               at |-> [n \in BondAttributes |->
                          CASE n = "face" -> "num"
                            [] n = "term" -> Held(a.term)
                            [] n = "k" -> Held(a.k)
                            [] n = "alpha" -> IF c_args THEN "unset" ELSE "None"
                            [] OTHER -> "unset"]]
        s1 == IF c_args
              THEN SetAttr(get_coupon_amt(
                       SetAttr(SetAttr(SetAttr(SetAttr(
                           BondRaise(s0, parse_cgr(a.alpha, a.cfreq, a.cgr)),
                           "cgr", "num"), "alpha", "num"), "cfreq", "num"),
                           "fr_is_level", "num")),
                       "fr", "num")
              ELSE SetAttr(SetAttr(s0, "fr", Held(a.fr)), "cfreq", Held(a.cfreq))
    IN  IF a.term THEN SetAttr(term_floor(s1), "is_term_floor", "num") ELSE s1

\* the arguments counted: gr, red or k, price, term and, unless the bond is
\* a zero, cgr or alpha
n_missing(a) ==
    LET is_zero == ~(a.alpha \/ a.cfreq \/ a.fr \/ a.cgr)
        args == <<a.gr, a.red \/ a.k, a.price, a.term>>
                \o (IF is_zero THEN <<>> ELSE <<a.cgr \/ a.alpha>>)
    IN  Cardinality({i \in DOMAIN args : ~args[i]})

\* the branch taken when the yield is the one missing argument
BondSolveYield(s, a) ==
    LET s1 == SetAttr(SetAttr(s, "red", Held(a.red)), "price", Held(a.price))
        \* amounts, times, Payments(...).irr() and min() of its positive roots
        s2 == ReadArgs(get_coupon_times(
                  IF s1.is_zero THEN s1
                  ELSE ReadAttrs(ReadAttrs(s1, {"fr_is_level"}), {"fr", "n_coupons"})),
                  {a.price, a.red, a.term})
    IN  get_coupons(SetAttr(s2, "gr", "num"))

\* if n_missing == 1: ... elif n_missing == 2: ... else: raise
BondResolve(s, a) ==
    LET red_args == a.red \/ a.k
        c_args == a.cgr \/ a.alpha
    IN  IF n_missing(a) = 1
        THEN IF ~a.price
             THEN get_coupons(standardize_acc_arg(
                      SetAttr(SetAttr(get_n_coupons(s), "n_coupons", "num"),
                              "red", Held(a.red)), a.gr))
             ELSE IF ~a.gr
             THEN BondSolveYield(SetAttr(get_n_coupons(s), "n_coupons", "num"), a)
             ELSE IF ~a.term
             THEN IF s.is_zero
                  THEN SetAttr(ReadArgs(
                           SetAttr(standardize_acc_arg(SetAttr(s, "red", Held(a.red)), a.gr),
                                   "price", Held(a.price)),
                           {a.gr, a.price, a.red}), "term", "num")
                  ELSE s
             ELSE LET s1 == get_coupons(SetAttr(standardize_acc_arg(
                               SetAttr(SetAttr(get_n_coupons(s), "n_coupons", "num"),
                                       "red", Held(a.red)), a.gr),
                               "price", Held(a.price)))
                  IN  SetAttr(get_redemption(s1), "red", "num")
        ELSE IF n_missing(a) = 2
        THEN IF ~a.price /\ ~red_args
             THEN IF a.pd
                  THEN LET s1 == get_coupons(standardize_acc_arg(
                                    SetAttr(get_n_coupons(s), "n_coupons", "num"), a.gr))
                       IN  SetAttr(SetAttr(
                               ReadAttrs(IF s1.err = "" /\ s1.at["coupons"] = "None"
                                         THEN BondRaise(s1, "AttributeError") ELSE s1,
                                         {"coupons", "gr", "term"}),
                               "red", "num"), "price", "num")
                  ELSE BondRaise(s, TooManyMissing)
             ELSE IF ~a.price /\ ~a.term
             THEN IF a.k
                  THEN LET s1 == SetAttr(ReadAttrs(
                                    SetAttr(standardize_acc_arg(s, a.gr), "red", Held(a.red)),
                                    {"fr", "red"}), "g", "num")
                           s2 == SetAttr(ReadAttrs(SetAttr(makeham(s1), "price", "num"),
                                                   {"gr", "k", "red"}), "term", "num")
                       IN  SetAttr(term_floor(get_coupons(
                               SetAttr(get_n_coupons(s2), "n_coupons", "num"))),
                               "is_term_floor", "num")
                  ELSE BondRaise(s, TooManyMissing)
             ELSE IF ~a.price /\ ~c_args
             THEN IF a.fr
                  THEN LET s1 == SetAttr(standardize_acc_arg(s, a.gr), "red", Held(a.red))
                           s2 == SetAttr(SetAttr(SetAttr(base_amount(s1), "price", "num"),
                                                 "fr_is_level", "num"), "fr", "num")
                       IN  SetAttr(get_coupons(SetAttr(get_n_coupons(s2), "n_coupons", "num")),
                                   "alpha", "None")
                  ELSE BondRaise(s, TooManyMissing)
             ELSE BondRaise(s, TooManyMissing)
        ELSE BondRaise(s, TooManyMissing)

\* the statements of __init__ after the missing arguments are resolved: the
\* cash flows, the price when it was not given, and the derived attributes
BondFinish(s, a) ==
    LET s1 == IF s.err # "" \/ s.is_zero THEN s
              ELSE IF s.at["coupons"] = "None" THEN BondRaise(s, "AttributeError")
              ELSE ReadAttrs(s, {"coupons"})
        \* Payments.__init__(self, amounts, times, gr=self.gr)
        s2 == SetAttr(SetAttr(
                  IF s1.err = "" /\ (s1.at["red"] = "unset" \/ s1.at["gr"] = "unset")
                  THEN BondRaise(s1, "AttributeError") ELSE s1,
                  "amounts", "num"), "times", "num")
        \* self.price = self.npv()
        s3 == IF a.price THEN s2
              ELSE SetAttr(ReadAttrs(ReadAttrs(s2, {"is_term_floor"}), {"red", "term", "gr"}),
                           "price", "num")
        \* self.append(amounts=[-self.price], times=[0])
        s4 == ReadAttrs(s3, {"price"})
        s5 == IF s4.err # "" \/ s4.is_zero THEN s4
              ELSE SetAttr(SetAttr(SetAttr(
                       ReadAttrs(ReadAttrs(s4, {"fr_is_level"}), {"gr", "cfreq", "fr", "red"}),
                       "j", "num"), "base", "num"), "g", "num")
    IN  SetAttr(ReadAttrs(SetAttr(SetAttr(ReadAttrs(s5, {"price", "red"}),
                                          "premium", "num"), "discount", "num"),
                          {"gr", "term", "red"}),
                "k", "num")

\* Bond(face, term, red, gr, cgr, alpha, cfreq, price, pd, k, fr)
BondInit(a) == BondFinish(BondResolve(BondArguments(a), a), a)

----------------------------------------------------------------------------
(* The state: one Rate object under test, the list objects and Payments    *)
(* objects of the cash-flow container, one Annuity object, and the last    *)
(* call made.                                                              *)

VARIABLES
    rate_obj,   \* the Rate object constructed, or NoRate
    heap,       \* the list objects allocated so far: heap[id] is a list's content
    pmts,       \* the Payments objects constructed so far
    ann,        \* the Annuity object constructed, or NoAnnuity
    loan,       \* the SimpleLoan object constructed, or NoLoan
    gen,        \* the generators of a perpetuity's payments being iterated, or NoGen
    bond,       \* the Bond object constructed, or NoBond
    last        \* the last call: its name, receiver, arguments and outcome

vars == <<rate_obj, heap, pmts, ann, loan, gen, bond, last>>

Idle == [op |-> "idle"]

\* the patterns drawn as inputs: the formal names, some aliases, an unknown one
PatternInputs == COMPOUNDS \cup SIMPLES \cup {"i", "nomint", "sd", "bogus"}

\* the <<pattern, freq, interval>> arguments that ask for a compound pattern
\* with exactly the argument that pattern requires
CompoundTargets ==
    {<<p, None, Some(t)>> : p \in {"Effective Interest", "Effective Discount"}, t \in Intervals}
    \cup {<<p, Some(m), None>> : p \in NOMINALS, m \in Freqs}
    \cup {<<"Force of Interest", None, None>>}

\* Rate objects to compare with: every formal pattern with exactly the
\* argument it requires
OtherRates ==
    {RateInit(Some(x), Some(t[1]), t[2], t[3], None, None, None, None, None) :
        x \in Mags,
        t \in CompoundTargets \cup {<<p, None, Some(iv)>> : p \in SIMPLES, iv \in Intervals}}

Others == {PyNone, PyStr} \cup {PyFloat(x) : x \in Mags} \cup {PyRate(o) : o \in OtherRates}

Init ==
    /\ rate_obj = NoRate
    /\ heap = <<>>
    /\ pmts = <<>>
    /\ ann = NoAnnuity
    /\ loan = NoLoan
    /\ gen = NoGen
    /\ bond = NoBond
    /\ last = Idle

\* r = Rate(rate, pattern, freq, interval)
NewRate ==
    /\ last = Idle
    /\ rate_obj = NoRate
    /\ \E rate \in Opt(Mags), pattern \in Opt(PatternInputs),
          freq \in Opt(Freqs), interval \in Opt(Intervals) :
          LET done(out) ==
              /\ rate_obj' = IF out.err = "" THEN out ELSE NoRate
              /\ last' = [op |-> "init", self |-> NoRate,
                          args |-> [rate |-> rate, pattern |-> pattern, freq |-> freq,
                                    interval |-> interval, conv |-> {}],
                          out |-> out]
              /\ UNCHANGED <<bond, ann, loan, gen, heap, pmts>>
          IN  done(RateInit(rate, pattern, freq, interval, None, None, None, None, None))

\* r = Rate(i=.., d=.., delta=.., s=.., sd=..) with one or two of the
\* convenience arguments, and possibly rate
NewRateConvenience ==
    /\ last = Idle
    /\ rate_obj = NoRate
    /\ \E c1 \in convenience_types, c2 \in convenience_types, x \in Mags,
          rate \in {None, Some((4 * Scale) \div 100)} :
          LET arg(c) == IF c \in {c1, c2} THEN Some(x) ELSE None
              done(out) ==
              /\ rate_obj' = IF out.err = "" THEN out ELSE NoRate
              /\ last' = [op |-> "init", self |-> NoRate,
                          args |-> [rate |-> rate, pattern |-> None, freq |-> None,
                                    interval |-> None, conv |-> {c1, c2}],
                          out |-> out]
              /\ UNCHANGED <<bond, ann, loan, gen, heap, pmts>>
          IN  done(RateInit(rate, None, None, None,
                            arg("i"), arg("d"), arg("delta"), arg("s"), arg("sd")))

\* r.convert_rate(pattern, freq, interval)
ConvertRate ==
    /\ last = Idle
    /\ rate_obj # NoRate
    /\ \E pattern \in PatternInputs, freq \in Opt(Freqs), interval \in Opt(Intervals) :
          last' = [op |-> "convert_rate", self |-> rate_obj,
                   args |-> [pattern |-> pattern, freq |-> freq, interval |-> interval],
                   out |-> convert_rate(rate_obj, pattern, freq, interval)]
    /\ UNCHANGED <<bond, ann, loan, gen, rate_obj, heap, pmts>>

\* r.standardize()
Standardize ==
    /\ last = Idle
    /\ rate_obj # NoRate
    /\ last' = [op |-> "standardize", self |-> rate_obj, args |-> <<>>,
                out |-> standardize(rate_obj)]
    /\ UNCHANGED <<bond, ann, loan, gen, rate_obj, heap, pmts>>

\* standardize_rate(gr) for a float, for r, and for a string
StandardizeRate ==
    /\ last = Idle
    /\ rate_obj # NoRate
    /\ \E gr \in {PyStr, PyRate(rate_obj)} \cup {PyFloat(x) : x \in Mags} :
          last' = [op |-> "standardize_rate", self |-> rate_obj, args |-> gr,
                   out |-> standardize_rate(gr)]
    /\ UNCHANGED <<bond, ann, loan, gen, rate_obj, heap, pmts>>

\* r == other, r != other, r > other, r >= other, r < other, r <= other
Compare ==
    /\ last = Idle
    /\ rate_obj # NoRate
    /\ \E op \in {"==", "!=", ">", ">=", "<", "<="}, other \in Others :
          last' = [op |-> "compare", self |-> rate_obj,
                   args |-> [op |-> op, other |-> other],
                   out |-> CASE op = "==" -> Rate_eq(rate_obj, other)
                             [] op = "!=" -> Rate_ne(rate_obj, other)
                             [] OTHER     -> Rate_order(rate_obj, other, op)]
    /\ UNCHANGED <<bond, ann, loan, gen, rate_obj, heap, pmts>>

\* r's own freq and interval, as convert_rate wants them for r's pattern
OwnFreq(r) == IF r.formal_pattern \in NOMINALS THEN r.freq ELSE None
OwnInterval(r) == IF r.formal_pattern \in EFFECTIVES THEN r.interval ELSE None

\* r.convert_rate(P).convert_rate(Q).convert_rate(r's own pattern): the first
\* exception raised ends the chain
convert_chain(r, P, Q) ==
    LET third(b) ==
            IF b.err # "" THEN b
            ELSE convert_rate(b, r.formal_pattern, OwnFreq(r), OwnInterval(r))
        second(a) ==
            IF a.err # "" THEN a
            ELSE third(convert_rate(a, Q[1], Q[2], Q[3]))
    IN  second(convert_rate(r, P[1], P[2], P[3]))

\* the round trip of a compound Rate through two compound patterns
RoundTrip ==
    /\ last = Idle
    /\ rate_obj # NoRate
    /\ rate_obj.formal_pattern \in COMPOUNDS
    /\ \E P \in CompoundTargets, Q \in CompoundTargets :
          last' = [op |-> "round_trip", self |-> rate_obj,
                   args |-> [P |-> P, Q |-> Q],
                   out |-> convert_chain(rate_obj, P, Q)]
    /\ UNCHANGED <<bond, ann, loan, gen, rate_obj, heap, pmts>>

\* the caller takes the outcome of the last call
Return ==
    /\ last # Idle
    /\ last' = Idle
    /\ UNCHANGED <<bond, ann, loan, gen, rate_obj, heap, pmts>>

\* del r
Discard ==
    /\ last = Idle
    /\ rate_obj # NoRate
    /\ rate_obj' = NoRate
    /\ UNCHANGED <<bond, ann, loan, gen, heap, pmts, last>>

Next ==
    \/ NewRate
    \/ NewRateConvenience
    \/ ConvertRate
    \/ Standardize
    \/ StandardizeRate
    \/ Compare
    \/ RoundTrip
    \/ Return
    \/ Discard

Spec == Init /\ [][Next]_vars

----------------------------------------------------------------------------
(* The calls on Payments.                                                  *)

\* the lists the caller creates: [0], [1], [0, 1], [1, 1], [0, 1.0],
\* [1.0, 1] and [0, 0.5]
ListInputs ==
    {<<IntNum(0)>>, <<IntNum(1)>>, <<IntNum(0), IntNum(1)>>, <<IntNum(1), IntNum(1)>>,
     <<IntNum(0), FloatNum(Scale)>>, <<FloatNum(Scale), IntNum(1)>>,
     <<IntNum(0), FloatNum(Scale \div 2)>>}

\* the starting guesses passed to irr: 1.05 (the default) and 1.5
X0s == {FloatNum((105 * Scale) \div 100), FloatNum((15 * Scale) \div 10)}

\* the caller creates a list
NewList ==
    /\ last = Idle
    /\ Len(heap) < MaxLists
    /\ \E content \in ListInputs : heap' = Append(heap, content)
    /\ UNCHANGED <<bond, ann, loan, gen, rate_obj, pmts, last>>

\* Payments(amounts, times) on two lists of the caller
NewPayments ==
    /\ last = Idle
    /\ Len(pmts) < MaxPayments
    /\ \E amounts \in DOMAIN heap, times \in DOMAIN heap :
          LET done(out) ==
              /\ pmts' = IF out.err = "" THEN Append(pmts, out) ELSE pmts
              /\ last' = [op |-> "Payments", self |-> 0,
                          args |-> [amounts |-> amounts, times |-> times],
                          out |-> out, before |-> heap]
          IN  done(PaymentsInit(heap, amounts, times))
    /\ UNCHANGED <<bond, ann, loan, gen, rate_obj, heap>>

\* pmts[self].append(amounts, times) on two lists of the caller
AppendPayments ==
    /\ last = Idle
    /\ \E self \in DOMAIN pmts, amounts \in DOMAIN heap, times \in DOMAIN heap :
          LET done(out) ==
              /\ \A id \in DOMAIN out.heap : Len(out.heap[id]) <= MaxLen
              /\ heap' = out.heap
              /\ last' = [op |-> "append", self |-> self,
                          args |-> [amounts |-> amounts, times |-> times],
                          out |-> out.err, before |-> heap]
          IN  done(append(heap, pmts[self], amounts, times))
    /\ UNCHANGED <<bond, ann, loan, gen, rate_obj, pmts>>

\* pmts[self] + pmts[other]
AddPayments ==
    /\ last = Idle
    /\ \E self \in DOMAIN pmts, other \in DOMAIN pmts :
          LET done(out) ==
              /\ \A id \in DOMAIN out.heap : Len(out.heap[id]) <= MaxLen
              /\ heap' = out.heap
              /\ last' = [op |-> "add", self |-> self, args |-> [other |-> other],
                          out |-> out.err, before |-> heap]
          IN  done(Payments_add(heap, pmts[self], pmts[other]))
    /\ UNCHANGED <<bond, ann, loan, gen, rate_obj, pmts>>

\* pmts[self].group_payments()
GroupPayments ==
    /\ last = Idle
    /\ \E self \in DOMAIN pmts :
          last' = [op |-> "group_payments", self |-> self, args |-> <<>>,
                   out |-> group_payments(heap, pmts[self]), before |-> heap]
    /\ UNCHANGED <<bond, ann, loan, gen, rate_obj, heap, pmts>>

\* pmts[self].irr(x0)
Irr ==
    /\ last = Idle
    /\ \E self \in DOMAIN pmts, x0 \in X0s :
          \E out \in irr_outcomes(irr(heap, pmts[self], x0)) :
              last' = [op |-> "irr", self |-> self, args |-> [x0 |-> x0],
                       out |-> out, before |-> heap]
    /\ UNCHANGED <<bond, ann, loan, gen, rate_obj, heap, pmts>>

\* the growth objects passed to npv and eq_val: none, or the float 0.1
GrInputs == {None, Some(Fine \div 10)}

\* pmts[self].npv(gr)
Npv ==
    /\ last = Idle
    /\ \E self \in DOMAIN pmts, gr \in GrInputs :
          last' = [op |-> "npv", self |-> self, args |-> [gr |-> gr],
                   out |-> npv(pmts[self].gr, Magnitudes(heap[pmts[self].times]),
                               Magnitudes(heap[pmts[self].amounts]), gr),
                   before |-> heap]
    /\ UNCHANGED <<bond, ann, loan, gen, rate_obj, heap, pmts>>

\* pmts[self].eq_val(t, gr) at the time t = 1
EqVal ==
    /\ last = Idle
    /\ \E self \in DOMAIN pmts, gr \in GrInputs :
          last' = [op |-> "eq_val", self |-> self, args |-> [t |-> Fine, gr |-> gr],
                   out |-> eq_val(pmts[self].gr, Magnitudes(heap[pmts[self].times]),
                                  Magnitudes(heap[pmts[self].amounts]), Fine, gr),
                   before |-> heap]
    /\ UNCHANGED <<bond, ann, loan, gen, rate_obj, heap, pmts>>

NextPayments ==
    \/ NewList
    \/ NewPayments
    \/ AppendPayments
    \/ AddPayments
    \/ GroupPayments
    \/ Irr
    \/ Npv
    \/ EqVal
    \/ Return

SpecPayments == Init /\ [][NextPayments]_vars

----------------------------------------------------------------------------
(* The yield of one Payments object: the object is constructed from two    *)
(* lists of its own and irr is called on it.                               *)

\* the amounts of a flow: -1, 0, 1, 1.1, 1.21 and 2.0
IrrAmounts ==
    {IntNum(-1), IntNum(0), IntNum(1), FloatNum((110 * Scale) \div 100),
     FloatNum((121 * Scale) \div 100), FloatNum(2 * Scale)}

\* the flows: two payments at the times 0 and n, or 0 and 0.5, and three
\* payments at the times 0, 1 and 2
IrrFlows ==
    {[amounts |-> <<a, b>>, times |-> <<IntNum(0), IntNum(n)>>] :
        a \in IrrAmounts, b \in IrrAmounts, n \in 1..MaxTerm}
    \cup {[amounts |-> <<a, b>>, times |-> <<IntNum(0), FloatNum(Scale \div 2)>>] :
        a \in IrrAmounts, b \in IrrAmounts}
    \cup {[amounts |-> <<a, b, c>>, times |-> <<IntNum(0), IntNum(1), IntNum(2)>>] :
        a \in IrrAmounts, b \in IrrAmounts, c \in IrrAmounts}

\* the state after Payments(amounts, times) on the two lists of a flow
InitIrr ==
    /\ rate_obj = NoRate
    /\ ann = NoAnnuity
    /\ loan = NoLoan
    /\ gen = NoGen
    /\ bond = NoBond
    /\ \E flow \in IrrFlows :
          /\ heap = <<flow.amounts, flow.times>>
          /\ pmts = <<PaymentsInit(heap, 1, 2)>>
    /\ last = Idle

NextIrr ==
    \/ GroupPayments
    \/ Irr
    \/ Return

SpecIrr == InitIrr /\ [][NextIrr]_vars

----------------------------------------------------------------------------
(* The valuation of Payments bound to a growth object.                     *)

\* a Rate of 10% nominal interest compounded twice a year
NominalRate ==
    RateInit(Some((10 * Scale) \div 100), Some("Nominal Interest"), Some(2), None,
             None, None, None, None, None)

\* the growth objects passed as gr: 10% as a float, as a nominal Rate, as a
\* compound and as a simple Accumulation, tiers of 10% up to 0.5 and 4% from
\* there on by time and by balance, and a string
GrObjects ==
    {GrFloat(Fine \div 10), GrRate(NominalRate),
     GrAccumulation("compound", Fine \div 10), GrAccumulation("simple", Fine \div 10),
     GrTieredTime(<<0, Fine \div 2>>, <<Fine \div 10, Fine \div 25>>),
     GrTieredBal(<<0, Fine \div 2>>, <<Fine \div 10, Fine \div 25>>),
     GrStr}

\* Payments(amounts, times, gr) on two lists of the caller
NewPaymentsGr ==
    /\ last = Idle
    /\ Len(pmts) < MaxPayments
    /\ \E amounts \in DOMAIN heap, times \in DOMAIN heap, gr \in GrObjects :
          LET done(out) ==
              /\ pmts' = IF out.err = "" THEN Append(pmts, out) ELSE pmts
              /\ last' = [op |-> "Payments", self |-> 0,
                          args |-> [amounts |-> amounts, times |-> times, gr |-> gr],
                          out |-> out, before |-> heap]
          IN  done(PaymentsInit_gr(heap, amounts, times, gr))
    /\ UNCHANGED <<bond, ann, loan, gen, rate_obj, heap>>

NextValuation ==
    \/ NewList
    \/ NewPaymentsGr
    \/ Npv
    \/ EqVal
    \/ Return

SpecValuation == Init /\ [][NextValuation]_vars

----------------------------------------------------------------------------
(* The calls on Annuity.                                                   *)

\* the arguments of the constructor: rates of 10% and 0.0002%, the amount 1,
\* periods of 1 and 2, no term or a term of 2, 3 or np.inf, no n or an n of
\* 2 or np.inf, a geometric progression of 0 or 10%, an arithmetic one of 0,
\* 0.5 or the tuple (0.5, 0), a deferral of 0 or 1, no loan or a loan of 2.5
AnnuityInputs ==
    {a \in [gr : {Fine \div 10, Fine \div 500000},
            amount : {Fine},
            period : {Fine, 2 * Fine},
            term : {None, Some(2 * Fine), Some(3 * Fine), Some(Inf)},
            n : {None, Some(2), Some(Inf)},
            gprog : {0, Fine \div 10},
            aprog : {0, Fine \div 2},
            aprog_m : {None, Some(0)},
            deferral : {0, Fine},
            imd : {"immediate", "due", "bogus"},
            loan : {None, Some((5 * Fine) \div 2)},
            drb : {None, Some("drop"), Some("balloon")}] :
        a.aprog_m # None => a.aprog # 0}

\* Annuity(gr, amount, period, term, n, gprog, aprog, deferral, imd, loan, drb)
NewAnnuity ==
    /\ last = Idle
    /\ ann = NoAnnuity
    /\ \E a \in AnnuityInputs :
          LET done(out) ==
              /\ ann' = IF out.err = "" THEN out ELSE NoAnnuity
              /\ last' = [op |-> "Annuity", args |-> a, out |-> out]
          IN  done(AnnuityInit(a))
    /\ UNCHANGED <<bond, rate_obj, heap, pmts, loan, gen>>

\* ann.pv(), ann not a perpetuity
AnnuityPv ==
    /\ last = Idle
    /\ ann # NoAnnuity
    /\ ann.ann_perp = "annuity"
    /\ last' = [op |-> "pv", branch |-> pv_branch(ann).branch, out |-> Annuity_pv(ann)]
    /\ UNCHANGED <<bond, rate_obj, heap, pmts, ann, loan, gen>>

\* ann.npv(), ann not a perpetuity
AnnuityNpv ==
    /\ last = Idle
    /\ ann # NoAnnuity
    /\ ann.ann_perp = "annuity"
    /\ last' = [op |-> "npv", out |-> Annuity_npv(ann)]
    /\ UNCHANGED <<bond, rate_obj, heap, pmts, ann, loan, gen>>

\* ann.sv(), ann not a perpetuity
AnnuitySv ==
    /\ last = Idle
    /\ ann # NoAnnuity
    /\ ann.ann_perp = "annuity"
    /\ last' = [op |-> "sv", out |-> Annuity_sv(ann)]
    /\ UNCHANGED <<bond, rate_obj, heap, pmts, ann, loan, gen>>

\* ann.eq_val(t) at the end of the term, ann not a perpetuity
AnnuityEqVal ==
    /\ last = Idle
    /\ ann # NoAnnuity
    /\ ann.ann_perp = "annuity"
    /\ last' = [op |-> "eq_val", args |-> [t |-> ann.term],
                out |-> Annuity_eq_val(ann, ann.term)]
    /\ UNCHANGED <<bond, rate_obj, heap, pmts, ann, loan, gen>>

NextAnnuity ==
    \/ NewAnnuity
    \/ AnnuityPv
    \/ AnnuityNpv
    \/ AnnuitySv
    \/ AnnuityEqVal
    \/ Return

SpecAnnuity == Init /\ [][NextAnnuity]_vars

----------------------------------------------------------------------------
(* The iteration of a perpetuity's payments.                               *)

\* the horizons t passed to amounts(t) and times(t): 0 up to MaxHorizon
Horizons == {k * Fine : k \in 0..MaxHorizon}

\* series = ann.amounts(t); times = ann.times(t), ann a perpetuity
StartGenerators ==
    /\ last = Idle
    /\ ann # NoAnnuity
    /\ ann.ann_perp = "perpetuity"
    /\ gen = NoGen
    /\ bond = NoBond
    /\ \E t \in Horizons :
          gen' = [state |-> "iterating", t |-> t,
                  series |-> NewGenerator, times |-> NewGenerator]
    /\ UNCHANGED <<bond, rate_obj, heap, pmts, ann, loan, last>>

\* next(series)
NextSeries ==
    /\ last = Idle
    /\ gen # NoGen
    /\ ~gen.series.done
    /\ gen' = [gen EXCEPT !.series = perp_series_next(ann, gen.series, gen.t)]
    /\ UNCHANGED <<bond, rate_obj, heap, pmts, ann, loan, last>>

\* next(times)
NextTimes ==
    /\ last = Idle
    /\ gen # NoGen
    /\ ~gen.times.done
    /\ gen' = [gen EXCEPT !.times = perp_times_next(ann, gen.times, gen.t)]
    /\ UNCHANGED <<bond, rate_obj, heap, pmts, ann, loan, last>>

NextPerpetuity ==
    \/ NewAnnuity
    \/ StartGenerators
    \/ NextSeries
    \/ NextTimes
    \/ Return

\* a caller that iterates over a generator keeps calling next() until the
\* generator returns
SpecPerpetuity ==
    /\ Init
    /\ [][NextPerpetuity]_vars
    /\ WF_vars(NextSeries)
    /\ WF_vars(NextTimes)

----------------------------------------------------------------------------
(* The calls on SimpleLoan.                                                *)

\* the arguments of the constructor: principals of 0, 1 and 2, terms of 0, 1
\* and 2, no discount amount or one of 0 or 0.1, no discount rate or one of
\* 0 or 10%
SimpleLoanInputs ==
    [principal : {0, Fine, 2 * Fine},
     term : {0, Fine, 2 * Fine},
     discount_amt : {None, Some(0), Some(Fine \div 10)},
     discount_rate : {None, Some(0), Some(Fine \div 10)}]

\* the principals k and the times t of the calls
LoanPrincipals == {0, Fine, 5 * Fine}
LoanTimes == {0, Fine, 2 * Fine, 3 * Fine}

\* loan = SimpleLoan(principal, term, discount_amt, discount_rate)
NewSimpleLoan ==
    /\ last = Idle
    /\ \E a \in SimpleLoanInputs :
          LET done(out) ==
              /\ loan' = IF out.err = "" THEN out ELSE loan
              /\ last' = [op |-> "SimpleLoan", args |-> a, out |-> out]
          IN  done(SimpleLoan(a.principal, a.term, a.discount_amt, a.discount_rate))
    /\ UNCHANGED <<bond, rate_obj, heap, pmts, ann, gen>>

\* loan(k, t)
SimpleLoanCall ==
    /\ last = Idle
    /\ loan # NoLoan
    /\ \E k \in LoanPrincipals, t \in LoanTimes :
          last' = [op |-> "loan", args |-> [k |-> k, t |-> t],
                   out |-> SimpleLoan_call(loan, k, t)]
    /\ UNCHANGED <<bond, rate_obj, heap, pmts, ann, loan, gen>>

NextSimpleLoan ==
    \/ NewSimpleLoan
    \/ SimpleLoanCall
    \/ Return

SpecSimpleLoan == Init /\ [][NextSimpleLoan]_vars

----------------------------------------------------------------------------
(* The calls on Bond.                                                      *)

\* the arguments of the constructor, each supplied or left as None
BondInputs ==
    [term : BOOLEAN, red : BOOLEAN, gr : BOOLEAN, cgr : BOOLEAN, alpha : BOOLEAN,
     cfreq : BOOLEAN, price : BOOLEAN, pd : BOOLEAN, k : BOOLEAN, fr : BOOLEAN]

\* bond = Bond(face, term, red, gr, cgr, alpha, cfreq, price, pd, k, fr)
NewBond ==
    /\ last = Idle
    /\ \E a \in BondInputs :
          LET done(out) ==
              /\ bond' = IF out.err = "" THEN out ELSE bond
              /\ last' = [op |-> "Bond", args |-> a, out |-> out]
          IN  done(BondInit(a))
    /\ UNCHANGED <<rate_obj, heap, pmts, ann, loan, gen>>

NextBond ==
    \/ NewBond
    \/ Return

SpecBond == Init /\ [][NextBond]_vars

----------------------------------------------------------------------------
(* Properties of Rate.                                                     *)

\* the family of a pattern name, aliases included
IsNominal(p) == p \in {"nomint", "nominal interest", "APR", "apr", "Nominal Interest",
                       "nomdisc", "nominal discount", "Nominal Discount"}
IsForce(p) == p \in {"delta", "force", "Force of Interest"}
IsSimple(p) == p \in {"s", "simple interest", "simp", "Simple Interest",
                      "Simple Discount", "sd", "simple discount", "simpdisc"}
IsEffective(p) == p \in {"interest", "i", "APY", "apy", "Effective Interest",
                         "d", "Effective Discount"}
IsCompound(p) == IsNominal(p) \/ IsForce(p) \/ IsEffective(p)

\* C1: convert_rate from a compound Rate to a compound pattern, with freq
\* exactly for a nominal target, interval exactly for an effective target and
\* neither for Force, returns a Rate of the target pattern carrying the
\* requested freq and interval, and never raises.
C1_CompoundPairsConvert ==
    (/\ last.op = "convert_rate"
     /\ last.self.formal_pattern \in COMPOUNDS
     /\ <<last.args.pattern, last.args.freq, last.args.interval>> \in CompoundTargets)
    => /\ last.out.err = ""
       /\ last.out.formal_pattern = last.args.pattern
       /\ last.out.freq = last.args.freq
       /\ last.out.interval = last.args.interval

\* the cases in which C2 says convert_rate fails
C2_ErrorCase(self, pattern, freq, interval) ==
    \/ IsForce(pattern) /\ (freq # None \/ interval # None)
    \/ IsNominal(pattern) /\ (freq = None \/ interval # None)
    \/ (IsEffective(pattern) \/ IsSimple(pattern)) /\ (interval = None \/ freq # None)
    \/ self.formal_pattern \in {"Simple Interest", "Simple Discount"} /\ IsCompound(pattern)
    \/ self.formal_pattern \notin {"Simple Interest", "Simple Discount"} /\ IsSimple(pattern)
    \/ self.formal_pattern = "Simple Interest" /\ pattern \in {"Simple Discount", "sd"}
    \/ self.formal_pattern = "Simple Discount" /\ pattern = "Simple Interest"

\* C2: in each of the listed cases (a freq or interval for a Force target, a
\* missing freq or an interval for a nominal target, a missing interval or a
\* freq for an effective or simple target, simple to compound, compound to
\* simple, Simple Interest to Simple Discount or back) convert_rate raises,
\* returns no Rate, and leaves the source Rate as it was.
C2_ConvertRateErrors ==
    (/\ last.op = "convert_rate"
     /\ C2_ErrorCase(last.self, last.args.pattern, last.args.freq, last.args.interval))
    => /\ last.out.err # ""
       /\ last.out = RateErr(last.out.err)
       /\ rate_obj = last.self

\* a compound-to-simple conversion with the interval a simple target wants
\* has raised
C2_Witness ==
    /\ last.op = "convert_rate"
    /\ last.self.formal_pattern = "Nominal Discount"
    /\ last.args = [pattern |-> "Simple Interest", freq |-> None, interval |-> Some(1)]
    /\ last.out.err = "Exception"
    /\ rate_obj = last.self

\* C3: Rate(rate, pattern, freq, interval) with a magnitude and a known
\* pattern raises when the pattern is nominal and freq is missing and when the
\* pattern is effective or simple and interval is missing; otherwise (Force of
\* Interest needing neither) it succeeds and stores the given pattern, freq
\* and interval.
C3_RateInitValidation ==
    (/\ last.op = "init"
     /\ last.args.conv = {}
     /\ last.args.rate # None
     /\ last.args.pattern # None
     /\ IsCompound(Get(last.args.pattern)) \/ IsSimple(Get(last.args.pattern)))
    => IF \/ IsNominal(Get(last.args.pattern)) /\ last.args.freq = None
          \/ /\ IsEffective(Get(last.args.pattern)) \/ IsSimple(Get(last.args.pattern))
             /\ last.args.interval = None
       THEN last.out.err # "" /\ rate_obj = NoRate
       ELSE /\ last.out.err = ""
            /\ rate_obj = last.out
            /\ last.out.rate = Get(last.args.rate)
            /\ last.out.pattern = Get(last.args.pattern)
            /\ last.out.freq = last.args.freq
            /\ last.out.interval = last.args.interval

\* a nominal rate built without freq has raised
C3_Witness ==
    /\ last.op = "init"
    /\ last.args.conv = {}
    /\ last.args.rate # None
    /\ last.args.pattern = Some("Nominal Interest")
    /\ last.args.freq = None
    /\ last.out.err = "ValueError"

\* the family two Rates share: "compound", "Simple Interest", "Simple
\* Discount", or "" when they share none
SameFamily(a, b) ==
    IF a.formal_pattern \in COMPOUNDS /\ b.formal_pattern \in COMPOUNDS THEN "compound"
    ELSE IF a.formal_pattern = b.formal_pattern THEN a.formal_pattern
    ELSE ""

\* the comparison op of two magnitudes
Holds(op, a, b) ==
    CASE op = "==" -> a = b
      [] op = "!=" -> a # b
      [] op = "<"  -> a < b
      [] op = "<=" -> a <= b
      [] op = ">"  -> a > b
      [] op = ">=" -> a >= b

\* C4: between two Rates of one family every comparison returns the boolean
\* that comparing their standardized magnitudes gives; an ordering comparison
\* of a compound Rate with a simple Rate, or of a Rate with a non-Rate, raises
\* TypeError.
C4_Comparisons ==
    last.op = "compare" =>
        LET self == last.self
            other == last.args.other
            op == last.args.op
        IN  /\ (other.kind = "Rate" /\ SameFamily(self, other.obj) # "") =>
                  /\ last.out.err = ""
                  /\ last.out.val = PyBool(Holds(op, standardize(self).rate,
                                                 standardize(other.obj).rate))
            /\ (/\ op \notin {"==", "!="}
                /\ \/ other.kind # "Rate"
                   \/ (self.formal_pattern \in COMPOUNDS) # (other.obj.formal_pattern \in COMPOUNDS))
               => last.out.err = "TypeError"

C6_RoundTrip ==
    last.op = "round_trip" =>
        /\ last.out.err = ""
        /\ last.out.formal_pattern = last.self.formal_pattern
        /\ last.out.freq = OwnFreq(last.self)
        /\ last.out.interval = OwnInterval(last.self)
        /\ Abs(last.out.rate - last.self.rate) <= Tol

\* C7: a Nominal Interest rate im of frequency m converted to Force of
\* Interest with no freq and no interval becomes the Force of Interest rate
\* ln(1 + i), i = (1 + im/m)^m - 1, with no freq and no interval; for
\* im = 0.04 and m = 2 that is 0.0396 to four places.
C7_NominalToForce ==
    (/\ last.op = "convert_rate"
     /\ last.self.formal_pattern = "Nominal Interest"
     /\ last.args = [pattern |-> "Force of Interest", freq |-> None, interval |-> None])
    => LET im == last.self.rate
           m == Get(last.self.freq)
           i == Pow(Scale + Div(im, m * Scale), m) - Scale
       IN  /\ last.out.err = ""
           /\ last.out.formal_pattern = "Force of Interest"
           /\ last.out.freq = None
           /\ last.out.interval = None
           /\ last.out.rate = Ln(Scale + i)
           /\ (im = (4 * Scale) \div 100 /\ m = 2) => last.out.rate = (396 * Scale) \div 10000

\* the rate 0.04 convertible twice a year has been converted to the force
\* 0.0396
C7_Witness ==
    /\ last.op = "convert_rate"
    /\ last.self.formal_pattern = "Nominal Interest"
    /\ last.self.rate = (4 * Scale) \div 100
    /\ last.self.freq = Some(2)
    /\ last.args = [pattern |-> "Force of Interest", freq |-> None, interval |-> None]
    /\ last.out.err = ""
    /\ last.out.rate = (396 * Scale) \div 10000

----------------------------------------------------------------------------
(* Properties of Payments.                                                 *)

\* the amounts and the times of the Payments object p
AmountsOf(p) == heap[pmts[p].amounts]
TimesOf(p) == heap[pmts[p].times]

\* the sum of the values of f over the indices in S
RECURSIVE SumOver(_, _)
SumOver(f, S) ==
    IF S = {} THEN 0
    ELSE LET k == CHOOSE k \in S : TRUE
         IN  f[k] + SumOver(f, S \ {k})

\* C8: every Payments object has as many amounts as times, after its
\* construction and after any appends; an append rejected for arguments of
\* different lengths raises and changes neither sequence; construction from
\* lists of different lengths raises.
C8_EqualLengths ==
    /\ \A p \in DOMAIN pmts : Len(AmountsOf(p)) = Len(TimesOf(p))
    /\ (/\ last.op = "append"
        /\ Len(last.before[last.args.amounts]) # Len(last.before[last.args.times]))
       => (last.out # "" /\ heap = last.before)
    /\ (/\ last.op = "Payments"
        /\ Len(heap[last.args.amounts]) # Len(heap[last.args.times]))
       => last.out.err # ""

\* C9: group_payments() returns one key per distinct payment time, in
\* ascending order, each mapped to the sum of the amounts paid at that time,
\* so that the mapped amounts sum to the sum of all amounts, and leaves the
\* object's times and amounts as they were.
C9_GroupPayments ==
    last.op = "group_payments" =>
        LET d == last.out
            times == TimesOf(last.self)
            amounts == AmountsOf(last.self)
        IN  /\ \A i \in DOMAIN d, j \in DOMAIN d : i < j => d[i][1].v < d[j][1].v
            /\ {d[i][1].v : i \in DOMAIN d} = {times[k].v : k \in DOMAIN times}
            /\ \A i \in DOMAIN d :
                  d[i][2].v = SumOver([k \in DOMAIN amounts |-> amounts[k].v],
                                      {k \in DOMAIN amounts \cap DOMAIN times :
                                          times[k].v = d[i][1].v})
            /\ SumOver([i \in DOMAIN d |-> d[i][2].v], DOMAIN d)
                  = SumOver([k \in DOMAIN amounts |-> amounts[k].v], DOMAIN amounts)
            /\ heap = last.before

\* C10: irr(x0) on a Payments object with payments solves by polynomial
\* roots, whatever x0 is, whenever every payment time is a non-negative
\* integer value, and by the iterative root-finder seeded at x0 exactly when
\* some payment time is fractional.
C10_IrrStrategy ==
    (last.op = "irr" /\ Len(TimesOf(last.self)) = Len(AmountsOf(last.self))) =>
        LET times == TimesOf(last.self)
            integral(t) == t.v >= 0 /\ t.v % Scale = 0
        IN  /\ (\A k \in DOMAIN times : integral(times[k]))
                  => (last.out.solver = "np.roots" /\ last.out.x0 = None)
            /\ (last.out.solver = "newton" /\ last.out.x0 = Some(last.args.x0))
                  <=> (\E k \in DOMAIN times : times[k].v % Scale # 0)

\* the equation of value of the grouped payments d has no real root: every
\* amount but the one at the latest time is zero, or some time is fractional
\* and the amounts that are not zero have one sign
NoRealRoot(d) ==
    /\ \E k \in DOMAIN d : d[k][2].v # 0
    /\ \/ \A k \in DOMAIN d : d[k][2].v # 0 => k = Len(d)
       \/ /\ \E k \in DOMAIN d : d[k][1].v % Scale # 0
          /\ \/ \A k \in DOMAIN d : d[k][2].v >= 0
             \/ \A k \in DOMAIN d : d[k][2].v <= 0

\* C11: irr() on payments whose equation of value has no real root does not
\* raise, by polynomial roots or by the iterative root-finder: it gives a
\* warning and returns an empty list, and leaves the Payments object as it
\* was.
C11_IrrNoRealRoot ==
    (/\ last.op = "irr"
     /\ Len(TimesOf(last.self)) = Len(AmountsOf(last.self))
     /\ NoRealRoot(group_payments(heap, pmts[last.self]))) =>
        /\ last.out.err = ""
        /\ last.out.warned
        /\ last.out.i_s = <<>>
        /\ heap = last.before

\* the value at 1 + i of the polynomial of the payments of p, the sum of
\* amount * (1 + i) ** (N - time) with whole times and N the latest of them
EquationOfValue(p, i) ==
    LET times == TimesOf(p)
        amounts == AmountsOf(p)
        terms(N) == [k \in DOMAIN amounts |->
                        Mul(amounts[k].v, Pow(Scale + i, N - int(times[k])))]
    IN  SumOver(terms(int(max_key(zip(times, amounts), times[1]))), DOMAIN amounts)

\* C12: for payments of -P at time 0 and X at the whole time n >= 1 (P > 0,
\* X > 0, any payment between them zero), irr() returns a list holding an i
\* with P * (1 + i) ** n = X; and every i that irr() returns from the roots
\* of the polynomial makes the sum of amount * (1 + i) ** (N - time) vanish,
\* N being the latest payment time.
C12_IrrRoundTrip ==
    last.op = "irr" =>
        LET times == TimesOf(last.self)
            amounts == AmountsOf(last.self)
            n == Len(times)
            rates == last.out.i_s
        IN  /\ (/\ \A k \in DOMAIN times : times[k].ty = "int"
                /\ amounts[1].v < 0 /\ amounts[n].v > 0
                /\ \A k \in 2..(n - 1) : amounts[k].v = 0)
               => /\ last.out.err = ""
                  /\ \E k \in DOMAIN rates :
                        Abs(Mul(-amounts[1].v, Pow(Scale + rates[k], int(times[n])))
                            - amounts[n].v) <= Tol
            /\ last.out.solver = "np.roots"
               => \A k \in DOMAIN rates : Abs(EquationOfValue(last.self, rates[k])) <= Tol

\* -1 at time 0 and 1.21 at time 2: irr() has returned a list holding 10%
C12_Witness ==
    /\ last.op = "irr"
    /\ AmountsOf(last.self) = <<IntNum(-1), FloatNum((121 * Scale) \div 100)>>
    /\ TimesOf(last.self) = <<IntNum(0), IntNum(2)>>
    /\ last.out.solver = "np.roots"
    /\ \E k \in DOMAIN last.out.i_s : last.out.i_s[k] = (10 * Scale) \div 100

\* C13: npv() with no gr argument on a Payments object constructed without a
\* growth object returns the plain sum of the amounts.
C13_NpvUndiscounted ==
    (/\ last.op = "npv"
     /\ pmts[last.self].gr = None
     /\ last.args.gr = None
     /\ Len(TimesOf(last.self)) = Len(AmountsOf(last.self))) =>
        /\ last.out.err = ""
        /\ last.out.pv = py_sum(Magnitudes(AmountsOf(last.self)))

----------------------------------------------------------------------------
(* Properties of Annuity.                                                  *)

\* the constructor has returned an Annuity that is not a perpetuity
Constructed == last.op = "Annuity" /\ last.out.err = "" /\ last.out.ann_perp = "annuity"

\* C14: an Annuity given a finite term and a positive period has no drop or
\* balloon payment (drb_pmt unset, every payment the scheduled amount) when
\* the term is an exact multiple of the period, and has exactly one, its
\* final payment differing from the level amount, when the term is not.
C14_DropBalloonBoundary ==
    (Constructed /\ last.args.term # None) =>
        LET a == last.args
            out == last.out
        IN  /\ Get(a.term) % a.period = 0
               => /\ out.drb_pmt = None
                  /\ out.amounts = scheduled_amounts(a, Len(out.amounts))
            /\ Get(a.term) % a.period # 0
               => /\ out.drb_pmt # None
                  /\ out.amounts # <<>>
                  /\ out.amounts[Len(out.amounts)] # a.amount

\* the payment count implied by the loan, the amount and the rate
ImpliedCount(a) == get_r_pmt(a.gr, a.period, a.loan, a.amount).r

\* C15: an Annuity given a loan and a level amount but neither term nor n,
\* whose implied payment count r is not whole, has with 'drop' the term
\* ceil(r) * period and floor(r) scheduled payments followed by one smaller
\* payment at the term, has with 'balloon' the term floor(r) * period and
\* floor(r) payments of which the last is enlarged, and is never left with
\* floor(r) scheduled payments unadjusted.
C15_LoanStyleResolution ==
    (/\ Constructed
     /\ last.args.loan # None /\ last.args.term = None /\ last.args.n = None
     /\ last.args.gprog = 0 /\ last.args.aprog = 0
     /\ ImpliedCount(last.args) % Fine # 0) =>
        LET a == last.args
            out == last.out
            r == ImpliedCount(last.args)
            len == Len(out.amounts)
        IN  /\ a.drb = Some("drop")
               => /\ out.term = ceil(r) * a.period
                  /\ len = floor(r) + 1
                  /\ SubSeq(out.amounts, 1, floor(r)) = scheduled_amounts(a, floor(r))
                  /\ out.amounts[len] < a.amount
                  /\ out.times[len] = out.term
            /\ a.drb = Some("balloon")
               => /\ out.term = floor(r) * a.period
                  /\ len = floor(r)
                  /\ out.amounts[len] > scheduled_amounts(a, floor(r))[len]
            /\ out.amounts # scheduled_amounts(a, floor(r))

\* C16: the constructor given an infinite term or an infinite payment count
\* together with drb = 'drop' or 'balloon' raises, and there is no Annuity.
C16_PerpetuityRejectsDrb ==
    (/\ last.op = "Annuity"
     /\ (last.args.term = Some(Inf) \/ last.args.n = Some(Inf))
     /\ last.args.drb \in {Some("drop"), Some("balloon")}) =>
        /\ last.out.err # ""
        /\ ann = NoAnnuity

\* C17: an Annuity of a scalar amount with a positive period, a finite term
\* or payment count, a number as aprog and neither loan nor drb has
\* n = floor(term / period) payments, or n as supplied; payment k
\* (k = 0..n-1) is amount * (1 + gprog)^k + aprog * k, at the time
\* period * (k + 1) for 'immediate' and period * k for 'due', later by the
\* deferral.
C17_Schedule ==
    (/\ Constructed
     /\ last.args.aprog_m = None
     /\ last.args.loan = None /\ last.args.drb = None) =>
        LET a == last.args
            out == last.out
            n == IF a.n # None THEN Get(a.n) ELSE floor(FDiv(Get(a.term), a.period))
        IN  /\ Len(out.amounts) = n
            /\ Len(out.times) = n
            /\ out.n_payments = n
            /\ \A k \in 0..(n - 1) :
                  /\ out.amounts[k + 1]
                        = FMul(a.amount, FPow(Fine + a.gprog, k)) + a.aprog * k
                  /\ out.times[k + 1]
                        = (IF a.imd = "immediate" THEN a.period * (k + 1) ELSE a.period * k)
                          + a.deferral

\* a deferred annuity-due of three payments with both progressions
C17_Witness ==
    /\ Constructed
    /\ last.args.aprog_m = None
    /\ last.args.loan = None /\ last.args.drb = None
    /\ last.args.n = None /\ last.args.term = Some(3 * Fine) /\ last.args.period = Fine
    /\ last.args.imd = "due" /\ last.args.deferral = Fine
    /\ last.args.gprog # 0 /\ last.args.aprog # 0
    /\ last.out.times = <<Fine, 2 * Fine, 3 * Fine>>
    /\ Len(last.out.amounts) = 3

\* the Annuity object is level: finite, no progression, no drop or balloon
LevelAnnuity ==
    /\ ann # NoAnnuity
    /\ ann.ann_perp = "annuity"
    /\ ann.gprog = 0 /\ ann.aprog = 0 /\ ann.drb_pmt = None

\* C18: pv() of a level annuity (immediate or due, deferred or not) under a
\* level compound rate equals npv() of its payments within tolerance.
C18_PvEqualsNpv ==
    (last.op = "pv" /\ LevelAnnuity) =>
        Abs(last.out - Annuity_npv(ann).pv) <= TolFine

\* C19: sv() of a level annuity with no deferral whose term is a whole number
\* n of periods equals eq_val(term) of its payments, which is
\* amount * ((1 + j)^n - 1) / j for 'immediate' and that times 1 + j for
\* 'due', j being the effective rate per period (rates of at least 1%,
\* below which eight places do not carry the quotient).
C19_SvEqualsEqVal ==
    (/\ last.op = "sv" /\ LevelAnnuity
     /\ ann.deferral = 0
     /\ ann.term = ann.n_payments * ann.period
     /\ Get(ann.gr).interest_rate >= Fine \div 100) =>
        LET j == val(Get(ann.gr), ann.period) - Fine
            s_n == FDiv(FMul(ann.amount, FPow(Fine + j, ann.n_payments) - Fine), j)
        IN  /\ Abs(last.out - Annuity_eq_val(ann, ann.term).b) <= TolFine
            /\ Abs(last.out - (IF ann.imd = "due" THEN FMul(s_n, Fine + j) ELSE s_n))
                  <= TolFine

\* sv() of an annuity-due of period 2 and term 2 at 10% is 1.21
C19_Witness ==
    /\ last.op = "sv" /\ LevelAnnuity
    /\ ann.deferral = 0 /\ ann.imd = "due"
    /\ ann.period = 2 * Fine /\ ann.term = 2 * Fine /\ ann.n_payments = 1
    /\ Get(ann.gr).interest_rate = Fine \div 10
    /\ Abs(last.out - (Fine + (21 * Fine) \div 100)) <= TolFine

----------------------------------------------------------------------------
(* Properties of SimpleLoan.                                               *)

\* C20: SimpleLoan given both or neither of discount_amt and discount_rate
\* raises; given exactly one of them (on a principal and a term that are not
\* 0) it returns a loan with the other derived, discount_amt being
\* principal * discount_rate; the loan called with k returns
\* k - discount_amt at t = 0 and k at t = term, and raises at any other t.
C20_SimpleLoanTwoPoint ==
    /\ last.op = "SimpleLoan" =>
          LET a == last.args
              out == last.out
              given == Cardinality({x \in {"amt", "rate"} :
                          IF x = "amt" THEN a.discount_amt # None
                                       ELSE a.discount_rate # None})
          IN  /\ given # 1 => out.err # ""
              /\ (given = 1 /\ a.principal # 0 /\ a.term # 0) =>
                    /\ out.err = ""
                    /\ loan = out
                    /\ Abs(out.discount_amt - FMul(out.principal, out.discount_rate))
                          <= TolFine
    /\ (last.op = "loan" /\ loan.term # 0) =>
          LET k == last.args.k
              t == last.args.t
          IN  /\ t = 0 => last.out.err = "" /\ last.out.value = k - loan.discount_amt
              /\ t = loan.term => last.out.err = "" /\ last.out.value = k
              /\ t \notin {0, loan.term} => last.out.err # ""

----------------------------------------------------------------------------
(* Further properties of Payments.                                         *)

\* C22: an accepted append changes only the sequences of the instance it is
\* called on: the list objects the caller passed to that instance's
\* constructor, the lists passed to append, and the amounts and times of
\* every other Payments instance are as they were before the call.
C22_AppendFrame ==
    (last.op = "append" /\ last.out = "") =>
        LET self == pmts[last.self]
        IN  /\ heap[self.amounts] = last.before[self.amounts]
            /\ heap[self.times] = last.before[self.times]
            /\ heap[last.args.amounts] = last.before[last.args.amounts]
            /\ heap[last.args.times] = last.before[last.args.times]
            /\ \A p \in DOMAIN pmts \ {last.self} :
                  /\ AmountsOf(p) = last.before[pmts[p].amounts]
                  /\ TimesOf(p) = last.before[pmts[p].times]

----------------------------------------------------------------------------
(* Further properties of Rate.                                             *)

\* C29: Rate constructed with two or more of the convenience arguments i, d,
\* delta, s, sd raises, and there is no Rate object.
C29_OneConvenienceOnly ==
    (last.op = "init" /\ Cardinality(last.args.conv) > 1) =>
        /\ last.out.err # ""
        /\ rate_obj = NoRate

----------------------------------------------------------------------------
(* Properties of the generators of a perpetuity.                           *)

\* C30: for every finite horizon t both generators of a perpetuity return:
\* perp_times(t) yields strictly increasing times, the first one period for
\* 'immediate' and 0 for 'due', and once started the two generators come to
\* their end.
C30_PerpGeneratorsTerminate ==
    /\ [](gen # NoGen =>
            /\ (gen.times.last # None /\ gen.times.prev = None) =>
                  Get(gen.times.last) = (IF ann.imd = "immediate" THEN ann.period ELSE 0)
            /\ gen.times.prev # None => Get(gen.times.last) > Get(gen.times.prev))
    /\ (gen # NoGen) ~> (gen # NoGen /\ gen.series.done /\ gen.times.done)

----------------------------------------------------------------------------
(* Properties of Annuity.pv().                                             *)

\* the object of the same annuity constructed without its deferral, which
\* the constructor uses only to move the scheduled times (no drop or balloon)
Undeferred(self) ==
    [self EXCEPT !.deferral = 0,
                 !.times = [k \in DOMAIN self.times |-> self.times[k] - self.deferral]]

\* the object of the same annuity-due constructed as an annuity-immediate,
\* every payment one period later (no drop or balloon)
AsImmediate(self) ==
    [self EXCEPT !.imd = "immediate",
                 !.pattern = <<self.ann_perp, "immediate">>,
                 !.times = [k \in DOMAIN self.times |-> self.times[k] + self.period]]

\* C23: pv() reflects the deferral and the immediate-or-due timing exactly
\* once each, in every branch: pv() of a deferred annuity is pv() of the same
\* annuity without deferral times discount_func(deferral), and pv() of an
\* annuity-due is pv() of the same annuity-immediate times 1 + i.
C23_PvShiftsOnce ==
    (last.op = "pv" /\ ann.drb_pmt = None) =>
        LET acc == Get(ann.gr)
        IN  /\ ann.deferral > 0 =>
                  Abs(last.out - FMul(Annuity_pv(Undeferred(ann)),
                                      discount_func(acc, ann.deferral, Fine))) <= TolFine
            /\ ann.imd = "due" =>
                  Abs(last.out - FMul(Annuity_pv(AsImmediate(ann)), val(acc, ann.period)))
                      <= TolFine

\* C24: pv() of a finite annuity whose payments increase by the step aprog,
\* given as a number, with gprog = 0 and no drop or balloon, is computed by
\* the closed form p * a_n + (q / i) * (a_n - n * v^n) and not by npv(); the
\* value is that of the form, times 1 + i for an annuity-due and discounted
\* over the deferral (compared at rates of at least 1%).
C24_ArithmeticClosedForm ==
    (/\ last.op = "pv"
     /\ ann.aprog # 0 /\ ann.mprog = Fine /\ ann.gprog = 0 /\ ann.drb_pmt = None) =>
        LET acc == Get(ann.gr)
            i == val(acc, ann.period) - Fine
            n == ann.n_payments
            v_n == FDiv(Fine, FPow(Fine + i, n))
            a_n == FDiv(Fine - v_n, i)
            form == FMul(ann.amount, a_n) + FDiv(FMul(ann.aprog, a_n - n * v_n), i)
            timed == IF ann.imd = "due" THEN FMul(form, Fine + i) ELSE form
        IN  /\ last.branch = "arithmetic"
            /\ acc.interest_rate >= Fine \div 100 =>
                  Abs(last.out - FMul(timed, discount_func(acc, ann.deferral, Fine)))
                      <= TolFine

\* C25: pv() takes the geometric-series form amount * (1 - ((1 + g) / (1 +
\* i))^n) / (i - g), or its limiting branch, only for a level rate and
\* payments that are level or purely geometric (aprog = 0, no drop or
\* balloon); it takes the limiting branch when i equals g; and a schedule
\* with both progressions is priced (without deferral) at the discounted
\* sum of its payments.
C25_GeometricFormOnly ==
    last.op = "pv" =>
        LET acc == Get(ann.gr)
            i == val(acc, ann.period) - Fine
        IN  /\ last.branch \in {"geometric", "limit"} =>
                  acc.is_level /\ ann.aprog = 0 /\ ann.drb_pmt = None
            /\ (last.branch \in {"geometric", "limit"} /\ i = ann.gprog) =>
                  last.branch = "limit"
            /\ (ann.gprog # 0 /\ ann.aprog # 0 /\ ann.mprog = Fine /\ ann.deferral = 0) =>
                  Abs(last.out - Annuity_npv(ann).pv) <= TolFine

----------------------------------------------------------------------------
(* Properties of the object Annuity.__init__ leaves.                       *)

\* the payments xs all have the same amount
AllSame(xs) == \A k \in DOMAIN xs : xs[k] = xs[1]

\* C26: after construction is_level_pmt is True exactly when all scheduled
\* payments have the same amount: for a finite annuity when its amounts are
\* all equal, for a perpetuity when it has neither a geometric nor an
\* arithmetic progression.
C26_IsLevelPmt ==
    (last.op = "Annuity" /\ last.out.err = "") =>
        IF last.out.ann_perp = "perpetuity"
        THEN last.out.is_level_pmt = (last.args.gprog = 0 /\ last.args.aprog = 0)
        ELSE last.out.is_level_pmt = AllSame(last.out.amounts)

\* C27: after construction of a finite annuity n_payments is the number of
\* scheduled payments, there are as many times as amounts, and a term the
\* constructor derives is n_payments periods, on every construction path.
C27_PaymentCount ==
    Constructed =>
        /\ Len(last.out.amounts) = last.out.n_payments
        /\ Len(last.out.times) = last.out.n_payments
        /\ last.args.term = None => last.out.term = last.out.n_payments * last.out.period

----------------------------------------------------------------------------
(* Properties of the valuation of Payments.                                *)

\* the kinds of growth object that Payments accepts as gr
AcceptedKinds == {"float", "Rate", "Accumulation", "TieredTime", "TieredBal"}

\* C28: Payments(amounts, times, gr) on lists of one length binds gr when
\* it is a float, a Rate, an Accumulation, a TieredTime or a TieredBal and
\* raises for any other kind; npv() and eq_val(t) on an object bound to a
\* growth object return a value and do not raise.
C28_BoundGrowthValues ==
    /\ (/\ last.op = "Payments"
        /\ Len(heap[last.args.amounts]) = Len(heap[last.args.times])) =>
          IF last.args.gr.kind \in AcceptedKinds
          THEN last.out.err = "" /\ last.out.gr # None
          ELSE last.out.err = "Exception"
    /\ (/\ last.op \in {"npv", "eq_val"}
        /\ last.args.gr = None
        /\ pmts[last.self].gr # None) =>
          last.out.err = ""

----------------------------------------------------------------------------
(* Properties of Bond.__init__.                                            *)

\* a two-missing case the constructor documents, given with the auxiliary
\* argument it requires: price and redemption with pd, price and term with
\* k, price and the coupon rate with fr
DocumentedPair(a) ==
    /\ n_missing(a) = 2
    /\ ~a.price
    /\ \/ ~(a.red \/ a.k) /\ a.pd
       \/ ~a.term /\ a.k
       \/ ~(a.cgr \/ a.alpha) /\ a.fr

\* C21: a Bond constructed with exactly one of price, yield, redemption,
\* term and (for a coupon bond) coupon rate absent completes without error,
\* a Bond constructed with none of them absent completes too, and "Too many
\* missing arguments" is raised only when two or more are absent and the
\* call is not a documented pair given with its auxiliary argument.
C21_BondMissingArguments ==
    last.op = "Bond" =>
        /\ n_missing(last.args) \in {0, 1} /\ last.out.err # "Cannot determine coupon rate."
               => last.out.err = ""
        /\ last.out.err = TooManyMissing
               => n_missing(last.args) >= 2 /\ ~DocumentedPair(last.args)

====
